---------------------------- MODULE Spec2Model ----------------------------
(***************************************************************************)
(* A model of the consistency_advanced engine: the hierarchy index and     *)
(* subsumption (ontology/compatibility.py), the label normalizer           *)
(* (normalize/normalize.py), the validator (validate/constraints.py), the  *)
(* aligner and the mismatch detector (reason/compare.py) and the gate of   *)
(* run_pipeline (pipeline/run.py).                                         *)
(*                                                                         *)
(* Conventions.                                                            *)
(*  - A Python str is a sequence of one-character strings, so startswith,  *)
(*    endswith, split, strip and `in` are computed, not assumed.           *)
(*  - An Optional value is a sequence of length 0 (None) or 1 (the value). *)
(*  - A float score is an integer number of 1/4200ths (4200 stands for     *)
(*    1.0), so every weight and every overlap ratio of the model's bounded *)
(*    lists is exact.                                                      *)
(*  - Each component has its own specification (SpecSubsume, SpecClosure,  *)
(*    SpecNormalize, SpecAlign, SpecDetect, SpecPipeline, SpecNormOp,      *)
(*    SpecValidate, SpecVerifier, SpecContext, SpecLoad, SpecLoadVocab,    *)
(*    SpecOverlap); a specification leaves the variables of the other      *)
(*    components at their idle values.                                     *)
(***************************************************************************)
EXTENDS Integers, Sequences, FiniteSets, TLC

VARIABLES
    index,        \* HierarchyIndex: [parent_map, derived_edges]
    q_parent,     \* is_subsumed: argument parent
    q_child,      \* is_subsumed: argument child
    current,      \* is_subsumed: local current
    visited,      \* is_subsumed: local visited
    sub_pc,       \* is_subsumed: "call" | "loop" | "done" | "idle"
    sub_result,   \* is_subsumed: returned value, Optional
    clo_target,   \* purpose_in_closure: argument target
    clo_allowed,  \* purpose_in_closure: argument allowed (a list)
    clo_pc,       \* purpose_in_closure: "call" | "done" | "idle"
    clo_result,   \* purpose_in_closure: returned value, Optional
    norm_vocab,   \* normalize_label: argument vocab
    norm_label,   \* normalize_label: argument label, Optional
    norm_choices, \* normalize_label: argument fallback_choices
    norm_chooser, \* normalize_label: argument chooser (None, or Some(its answer))
    norm_pc,      \* normalize_label: "call" | "done" | "idle"
    norm_result,  \* normalize_label: returned NormalizedField, Optional
    fp_ops,       \* first-party NormalizedOperations (fp_norm in run_pipeline)
    tp_ops,       \* third-party NormalizedOperations (tp_norm in run_pipeline)
    index_given,  \* whether index is passed (False: index=None)
    strict,       \* strict_context_compat
    min_score,    \* align_operations: argument min_score
    al_i,         \* align_operations: first-party operations already visited
    used_tp,      \* align_operations: local used_tp
    pairs,        \* align_operations: local pairs (aligned in run_pipeline)
    al_pc,        \* align_operations: "loop" | "done" | "idle"
    verifier,     \* None: the default verifier; Some("plugged"): a supplied callable
    findings,     \* find_mismatches: local findings (findings in run_pipeline)
    det_n,        \* find_mismatches: aligned pairs already visited
    det_last,     \* find_mismatches: the last iteration (pair, candidate, decision), Optional
    det_pc,       \* find_mismatches: "loop" | "done" | "idle"
    pl_pc,        \* run_pipeline: "validate" | "align" | "reason" | "report" | "done" | "idle"
    issues,       \* run_pipeline: local issues
    blocking,     \* run_pipeline: local blocking
    calls,        \* run_pipeline: the stage functions invoked so far
    summary,      \* run_pipeline: the returned summary and machine report, Optional
    nop_op,       \* normalize_operation: argument op (the labels of an OperationCandidate)
    nop_vocab,    \* normalize_operation: argument vocab
    nop_chooser,  \* normalize_operation: whether a chooser is passed
    nop_pc,       \* normalize_operation: "call" | "done" | "idle"
    nop_result,   \* normalize_operation: returned NormalizedOperation, Optional
    ver_env,      \* OpenAIFindingVerifier: the key and what the API does with the request
    ver_pc,       \* OpenAIFindingVerifier.__call__: "call" | "post" | "read" | "parse" | "done" | "idle"
    ver_raw,      \* OpenAIFindingVerifier.__call__: local raw, Optional
    ver_result,   \* OpenAIFindingVerifier.__call__: what the call ends with, Optional
    ctx_a,        \* is_context_compatible: argument a, Optional
    ctx_b,        \* is_context_compatible: argument b, Optional
    ctx_rules,    \* is_context_compatible: rules.context_compatibility
    ctx_pc,       \* is_context_compatible: "call" | "done" | "idle"
    ctx_result,   \* is_context_compatible: returned value, Optional
    load_items,   \* _to_terms: argument items
    load_pc,      \* _to_terms: "call" | "done" | "idle"
    load_terms,   \* _to_terms: returned list of VocabTerm, Optional
    lv_path,      \* load_vocab: argument path and what the file system holds there
    lv_pc,        \* load_vocab: "call" | "done" | "idle"
    lv_result,    \* load_vocab: what the call ends with, Optional
    ov_a,         \* _purpose_overlap: argument a
    ov_b,         \* _purpose_overlap: argument b
    ov_given,     \* _purpose_overlap: whether index is passed (FALSE: index=None)
    ov_pc,        \* _purpose_overlap: "call" | "done" | "idle"
    ov_result     \* _purpose_overlap: returned ratio and what it adds to the score, Optional

subVars == <<q_parent, q_child, current, visited, sub_pc, sub_result>>
cloVars == <<clo_target, clo_allowed, clo_pc, clo_result>>
normVars == <<norm_vocab, norm_label, norm_choices, norm_chooser, norm_pc, norm_result>>
inputVars == <<fp_ops, tp_ops, index_given, strict, verifier>>
alignVars == <<min_score, al_i, used_tp, al_pc>>
detVars == <<det_n, det_last, det_pc>>
pipeVars == <<pl_pc, issues, blocking, calls, summary>>
engineVars == <<inputVars, alignVars, detVars, pipeVars, pairs, findings>>
nopVars == <<nop_op, nop_vocab, nop_chooser, nop_pc, nop_result>>
verVars == <<ver_env, ver_pc, ver_raw, ver_result>>
ctxVars == <<ctx_a, ctx_b, ctx_rules, ctx_pc, ctx_result>>
loadVars == <<load_items, load_pc, load_terms>>
extVars == <<nopVars, verVars, ctxVars, loadVars>>
lvVars == <<lv_path, lv_pc, lv_result>>
ovVars == <<ov_a, ov_b, ov_given, ov_pc, ov_result>>
auxVars == <<lvVars, ovVars>>
vars == <<index, subVars, cloVars, normVars, engineVars, extVars, auxVars>>

----------------------------------------------------------------------------
(* Optional values and Python strings.                                      *)

None == <<>>
Some(x) == <<x>>
IsNone(o) == Len(o) = 0
Get(o) == o[1]

Range(s) == {s[i] : i \in 1..Len(s)}

\* str.startswith(p)
StartsWith(s, p) == Len(p) <= Len(s) /\ SubSeq(s, 1, Len(p)) = p

\* str.endswith(p)
EndsWith(s, p) == Len(p) <= Len(s) /\ SubSeq(s, Len(s) - Len(p) + 1, Len(s)) = p

\* `a in b` on two strings: a is a contiguous substring of b
Contains(b, a) == \E i \in 0..(Len(b) - Len(a)) : SubSeq(b, i + 1, i + Len(a)) = a

\* Sequences over S of length at most n
SeqsUpTo(S, n) == UNION {[1..k -> S] : k \in 0..n}

----------------------------------------------------------------------------
(* URIs used as inputs.                                                     *)

PurposeAdvertising == <<"p","u","r","p","o","s","e",":","a","d","v","e","r","t","i","s","i","n","g">>
PurposeMarketing == <<"p","u","r","p","o","s","e",":","m","a","r","k","e","t","i","n","g">>
PurposeAnalytics == <<"p","u","r","p","o","s","e",":","a","n","a","l","y","t","i","c","s">>
SubjectDeviceId == <<"s","u","b","j","e","c","t",":","d","e","v","i","c","e","_","i","d">>
SubjectCookieId == <<"s","u","b","j","e","c","t",":","c","o","o","k","i","e","_","i","d">>
ActionShare == <<"a","c","t","i","o","n",":","s","h","a","r","e">>
ActionDisclose == <<"a","c","t","i","o","n",":","d","i","s","c","l","o","s","e">>
ActionCollect == <<"a","c","t","i","o","n",":","c","o","l","l","e","c","t">>
ActionReceive == <<"a","c","t","i","o","n",":","r","e","c","e","i","v","e">>
ActionUse == <<"a","c","t","i","o","n",":","u","s","e">>
ActionProcess == <<"a","c","t","i","o","n",":","p","r","o","c","e","s","s">>
ActionRetain == <<"a","c","t","i","o","n",":","r","e","t","a","i","n">>
ActionDelete == <<"a","c","t","i","o","n",":","d","e","l","e","t","e">>
ActionTransfer == <<"a","c","t","i","o","n",":","t","r","a","n","s","f","e","r">>
ActionSell == <<"a","c","t","i","o","n",":","s","e","l","l">>
ViewMay == <<"v","i","e","w",":","m","a","y">>
ViewDoNot == <<"v","i","e","w",":","d","o","_","n","o","t">>
RecipientPartner == <<"r","e","c","i","p","i","e","n","t",":","p","a","r","t","n","e","r">>
BasisConsent == <<"b","a","s","i","s",":","c","o","n","s","e","n","t">>
BasisContract == <<"b","a","s","i","s",":","c","o","n","t","r","a","c","t">>
ContextEu == <<"c","o","n","t","e","x","t",":","e","u">>
ContextUs == <<"c","o","n","t","e","x","t",":","u","s">>
ContextPartner == <<"c","o","n","t","e","x","t",":","p","a","r","t","n","e","r">>

\* The purpose vocabulary the subsumption checks range over.
PurposeUris == {PurposeAdvertising, PurposeMarketing, PurposeAnalytics}

----------------------------------------------------------------------------
(* Bounds.                                                                  *)

\* Largest number of explicit rule edges in a hierarchy index.
MaxEdges == 1
\* Longest `allowed` list handed to purpose_in_closure.
MaxAllowed == 2
\* Longest free-text label handed to normalize_label.
MaxLabelLen == 3
\* Longest list of operations of one policy.
MaxOps == 2
\* Longest list of aligned pairs handed to find_mismatches.
MaxPairs == 2
\* Most override entries in rules.context_compatibility.
MaxRules == 2
\* Longest list of entries handed to _to_terms.
MaxItems == 2
\* Longest stem of a file name handed to load_vocab.
MaxStemLen == 1
\* Longest purpose list handed to _purpose_overlap.
MaxPurposes == 2

----------------------------------------------------------------------------
(* ontology/compatibility.py: HierarchyIndex, is_subsumed.                  *)

\* Every parent map over U (a dict: a function on some subset of U).
ParentMaps(U) == UNION {[D -> U] : D \in SUBSET U}

\* Every set of at most n (parent, child) rule edges over U.
EdgeSets(U, n) == {E \in SUBSET (U \X U) : Cardinality(E) <= n}

HierarchyIndexes(U, n) ==
    {[parent_map |-> pm, derived_edges |-> es] : pm \in ParentMaps(U), es \in EdgeSets(U, n)}

\* line 33 with the arguments swapped: the rule edge read child-to-parent
EdgeHitReversed(parent, child, idx) == <<child, parent>> \in idx.derived_edges

\* line 33: (parent, child) in index.derived_edges
EdgeHit(parent, child, idx) == <<parent, child>> \in idx.derived_edges

\* line 38 without the visited test
WalkCondNoVisited(cur, vis, idx) == cur \in DOMAIN idx.parent_map

\* line 38: current in index.parent_map and current not in visited
WalkCond(cur, vis, idx) == cur \in DOMAIN idx.parent_map /\ cur \notin vis

\* lines 36-43 as a function: the while loop from (current, visited)
RECURSIVE Walk(_, _, _, _)
Walk(cur, vis, parent, idx) ==
    IF WalkCond(cur, vis, idx)
    THEN LET nxt == idx.parent_map[cur]
         IN  IF nxt = parent THEN TRUE ELSE Walk(nxt, vis \cup {cur}, parent, idx)
    ELSE FALSE

\* is_subsumed(parent, child, index) as a function
is_subsumed(parent, child, idx) ==
    IF parent = child THEN TRUE
    ELSE IF EdgeHit(parent, child, idx) THEN TRUE
    ELSE Walk(child, {}, parent, idx)

\* The same code as a process: one action per step of the call.
\* lines 31-37: the two early returns, then current = child, visited = set()
SubCall ==
    /\ sub_pc = "call"
    /\ IF q_parent = q_child \/ EdgeHit(q_parent, q_child, index)
       THEN /\ sub_result' = Some(TRUE)
            /\ sub_pc' = "done"
            /\ UNCHANGED <<current, visited>>
       ELSE /\ current' = Some(q_child)
            /\ visited' = {}
            /\ sub_pc' = "loop"
            /\ UNCHANGED sub_result
    /\ UNCHANGED <<index, auxVars, extVars, q_parent, q_child, cloVars, normVars, engineVars>>

\* lines 38-42: one iteration of the while loop
SubWalkStep ==
    /\ sub_pc = "loop"
    /\ WalkCond(Get(current), visited, index)
    /\ visited' = visited \cup {Get(current)}
    /\ current' = Some(index.parent_map[Get(current)])
    /\ IF index.parent_map[Get(current)] = q_parent
       THEN sub_result' = Some(TRUE) /\ sub_pc' = "done"
       ELSE UNCHANGED sub_result /\ sub_pc' = "loop"
    /\ UNCHANGED <<index, auxVars, extVars, q_parent, q_child, cloVars, normVars, engineVars>>

\* lines 38, 43: the loop condition fails, return False
SubWalkExit ==
    /\ sub_pc = "loop"
    /\ ~WalkCond(Get(current), visited, index)
    /\ sub_result' = Some(FALSE)
    /\ sub_pc' = "done"
    /\ UNCHANGED <<index, auxVars, extVars, q_parent, q_child, current, visited, cloVars, normVars, engineVars>>

SubIdle ==
    /\ q_parent = None /\ q_child = None /\ current = None /\ visited = {}
    /\ sub_pc = "idle" /\ sub_result = None

----------------------------------------------------------------------------
(* ontology/compatibility.py: purpose_in_closure.                           *)

\* lines 48-50 with the arguments of is_subsumed swapped
ClosureHitReversed(allowed_uri, target, idx) == is_subsumed(target, allowed_uri, idx)

\* line 49: is_subsumed(allowed_uri, target, index)
ClosureHit(allowed_uri, target, idx) == is_subsumed(allowed_uri, target, idx)

\* lines 48-51: the for loop with its early return, from position i
RECURSIVE ClosureFrom(_, _, _, _)
ClosureFrom(i, target, allowed, idx) ==
    IF i > Len(allowed) THEN FALSE
    ELSE IF ClosureHit(allowed[i], target, idx) THEN TRUE
    ELSE ClosureFrom(i + 1, target, allowed, idx)

purpose_in_closure(target, allowed, idx) == ClosureFrom(1, target, allowed, idx)

ClosureCall ==
    /\ clo_pc = "call"
    /\ clo_result' = Some(purpose_in_closure(clo_target, clo_allowed, index))
    /\ clo_pc' = "done"
    /\ UNCHANGED <<index, auxVars, extVars, clo_target, clo_allowed, subVars, normVars, engineVars>>

CloIdle ==
    /\ clo_target = None /\ clo_allowed = <<>> /\ clo_pc = "idle" /\ clo_result = None

----------------------------------------------------------------------------
(* normalize/normalize.py: _canon, _build_index, normalize_label.           *)

LowerLetters == <<"a","b","c","d","e","f","g","h","i","j","k","l","m",
                  "n","o","p","q","r","s","t","u","v","w","x","y","z">>
UpperLetters == <<"A","B","C","D","E","F","G","H","I","J","K","L","M",
                  "N","O","P","Q","R","S","T","U","V","W","X","Y","Z">>
Digits == {"0","1","2","3","4","5","6","7","8","9"}

\* the characters str.strip() and the regex class \s take for whitespace
IsSpace(c) == c \in {" ", "\t", "\n", "\r"}

\* str.lower() on one character
LowerChar(c) ==
    IF \E i \in 1..Len(UpperLetters) : UpperLetters[i] = c
    THEN LowerLetters[CHOOSE i \in 1..Len(UpperLetters) : UpperLetters[i] = c]
    ELSE c

\* str.lower()
Lower(s) == [i \in 1..Len(s) |-> LowerChar(s[i])]

RECURSIVE LStrip(_)
LStrip(s) == IF s # <<>> /\ IsSpace(Head(s)) THEN LStrip(Tail(s)) ELSE s

RECURSIVE RStrip(_)
RStrip(s) == IF s # <<>> /\ IsSpace(s[Len(s)]) THEN RStrip(SubSeq(s, 1, Len(s) - 1)) ELSE s

\* str.strip()
Strip(s) == RStrip(LStrip(s))

\* line 22: the class [a-z0-9_\-\s], whose complement becomes a space
KeptChar(c) == c \in Range(LowerLetters) \/ c \in Digits \/ c \in {"_", "-"} \/ IsSpace(c)

\* line 22: re.sub(r"[^a-z0-9_\-\s]", " ", text)
SubPunct(s) == [i \in 1..Len(s) |-> IF KeptChar(s[i]) THEN s[i] ELSE " "]

\* line 23: re.sub(r"\s+", " ", text)
RECURSIVE CollapseSpace(_)
CollapseSpace(s) ==
    IF s = <<>> THEN <<>>
    ELSE IF IsSpace(Head(s)) THEN <<" ">> \o CollapseSpace(LStrip(s))
    ELSE <<Head(s)>> \o CollapseSpace(Tail(s))

\* _canon as written: lower and strip first, then the two substitutions
_canon(text) == CollapseSpace(SubPunct(Strip(Lower(text))))

\* An insertion-ordered dict: a sequence of [k, v] with pairwise distinct k.
DictHas(d, k) == \E i \in 1..Len(d) : d[i].k = k
DictPos(d, k) == CHOOSE i \in 1..Len(d) : d[i].k = k
\* dict.get(k)
DictGet(d, k) == IF DictHas(d, k) THEN Some(d[DictPos(d, k)].v) ELSE None
\* d[k] = v: a new key goes last, a known key keeps its place
DictPut(d, k, v) ==
    IF DictHas(d, k) THEN [d EXCEPT ![DictPos(d, k)].v = v]
    ELSE Append(d, [k |-> k, v |-> v])
\* d.setdefault(k, v)
DictSetDefault(d, k, v) == IF DictHas(d, k) THEN d ELSE Append(d, [k |-> k, v |-> v])

\* ontology/loader.py, label_to_uri: the label, then each alt label, of one term
RECURSIVE PutAltLabels(_, _, _, _)
PutAltLabels(d, alts, i, uri) ==
    IF i > Len(alts) THEN d ELSE PutAltLabels(DictPut(d, alts[i], uri), alts, i + 1, uri)

RECURSIVE PutTermLabels(_, _, _)
PutTermLabels(d, terms, i) ==
    IF i > Len(terms) THEN d
    ELSE PutTermLabels(
             PutAltLabels(DictPut(d, terms[i].label, terms[i].uri), terms[i].alt_labels, 1, terms[i].uri),
             terms, i + 1)

\* every list of vocab.context, in the order of the dict
RECURSIVE Flatten(_)
Flatten(ss) == IF ss = <<>> THEN <<>> ELSE Head(ss) \o Flatten(Tail(ss))

\* Vocabulary.label_to_uri
label_to_uri(vocab) ==
    PutTermLabels(
        PutTermLabels(<<>>,
            vocab.actions \o vocab.subjects \o vocab.purposes \o vocab.views
                \o vocab.recipients \o vocab.legal_bases, 1),
        Flatten(vocab.context), 1)

\* text.find(c) >= 0, and the position
HasChar(s, c) == \E i \in 1..Len(s) : s[i] = c
FirstChar(s, c) == CHOOSE i \in 1..Len(s) : s[i] = c /\ \A j \in 1..(i - 1) : s[j] # c

\* uri.split(":", 1)[-1]: the text after the first colon, the whole without one
TailAfterFirstColon(uri) ==
    IF HasChar(uri, ":") THEN SubSeq(uri, FirstChar(uri, ":") + 1, Len(uri)) ELSE uri

\* tail.replace("_", " ")
ReplaceUnderscore(s) == [i \in 1..Len(s) |-> IF s[i] = "_" THEN " " ELSE s[i]]

\* lines 29-30: mapping[_canon(label)] = uri over label_to_uri().items()
RECURSIVE PutCanonLabels(_, _, _)
PutCanonLabels(d, items, i) ==
    IF i > Len(items) THEN d
    ELSE PutCanonLabels(DictPut(d, _canon(items[i].k), items[i].v), items, i + 1)

\* lines 40-42: mapping.setdefault(_canon(tail.replace("_", " ")), term.uri)
RECURSIVE PutUriTails(_, _, _)
PutUriTails(d, terms, i) ==
    IF i > Len(terms) THEN d
    ELSE PutUriTails(
             DictSetDefault(d, _canon(ReplaceUnderscore(TailAfterFirstColon(terms[i].uri))), terms[i].uri),
             terms, i + 1)

\* _build_index
_build_index(vocab) ==
    PutUriTails(
        PutCanonLabels(<<>>, label_to_uri(vocab), 1),
        vocab.actions \o vocab.data_categories \o vocab.purposes \o vocab.views
            \o vocab.recipients \o vocab.legal_bases, 1)

NormalizedField(raw, uri, conf, reason) ==
    [raw_label |-> raw, normalized_uri |-> uri, confidence |-> conf, reason |-> reason]

\* line 67: known in label_key or label_key in known
SubstringHit(known, label_key) == Contains(label_key, known) \/ Contains(known, label_key)

\* lines 66-68: the first entry of the index, in its order, that hits
RECURSIVE FirstSubstring(_, _, _)
FirstSubstring(d, label_key, i) ==
    IF i > Len(d) THEN None
    ELSE IF SubstringHit(d[i].k, label_key) THEN Some(d[i].v)
    ELSE FirstSubstring(d, label_key, i + 1)

\* line 73 without the membership test: any pick is taken
ChooserAcceptsAny(picked, fallback_choices) == ~IsNone(picked)

\* line 73: picked in fallback_choices
ChooserAccepts(picked, fallback_choices) ==
    ~IsNone(picked) /\ Get(picked) \in Range(fallback_choices)

\* normalize_label. label is Optional; chooser is None or Some(what the
\* callable returns for this call, itself Optional); fallback_choices is a
\* list (None and [] take the same branch at line 71).
normalize_label(label, vocab, fallback_choices, chooser) ==
    IF IsNone(label) \/ Strip(Get(label)) = <<>>
    THEN NormalizedField(label, None, 0, "missing")
    ELSE LET label_raw == Get(label)
             label_key == _canon(label_raw)
             idx       == _build_index(vocab)
             exact     == DictGet(idx, label_key)
             sub       == FirstSubstring(idx, label_key, 1)
         IN  IF ~IsNone(exact)
             THEN NormalizedField(label, exact, 100, "exact_label")
             ELSE IF ~IsNone(sub)
             THEN NormalizedField(label, sub, 82, "substring_match")
             ELSE IF ~IsNone(chooser) /\ fallback_choices # <<>>
                     /\ ChooserAccepts(Get(chooser), fallback_choices)
             THEN NormalizedField(label, Get(chooser), 70, "chooser")
             ELSE NormalizedField(label, None, 0, "unknown")

\* Inputs of the normalizer: small vocabularies with short labels.
VocabTerm(uri, label, parent, alt_labels) ==
    [uri |-> uri, label |-> label, parent |-> parent, alt_labels |-> alt_labels]

UriActionAb == <<"a","c","t","i","o","n",":","a","b">>
UriSubjectA_b == <<"s","u","b","j","e","c","t",":","a","_","b">>
UriActionB == <<"a","c","t","i","o","n",":","b">>
UriPurposeA == <<"p","u","r","p","o","s","e",":","a">>
UriContextBa == <<"c","o","n","t","e","x","t",":","b","a">>

EmptyVocab ==
    [actions |-> <<>>, subjects |-> <<>>, data_categories |-> <<>>, purposes |-> <<>>,
     views |-> <<>>, recipients |-> <<>>, legal_bases |-> <<>>, context |-> <<>>]

\* keys, in order: "ab" -> action:ab, "a b" -> subject:a_b
VocabA ==
    [EmptyVocab EXCEPT
        !.actions = <<VocabTerm(UriActionAb, <<"A","b">>, None, <<>>)>>,
        !.subjects = <<VocabTerm(UriSubjectA_b, <<"a"," ","b">>, None, <<>>)>>,
        !.data_categories = <<VocabTerm(UriSubjectA_b, <<"a"," ","b">>, None, <<>>)>>]

\* keys, in order: "a" -> purpose:a (the later label wins), "ba" -> context:ba,
\* "b" -> action:b (from the URI tail)
VocabB ==
    [EmptyVocab EXCEPT
        !.actions = <<VocabTerm(UriActionB, <<"a">>, None, <<>>)>>,
        !.purposes = <<VocabTerm(UriPurposeA, <<"A","!">>, None, <<<<"a">>>>)>>,
        !.context = << <<VocabTerm(UriContextBa, <<"b","a">>, None, <<>>)>> >>]

NormVocabs == {EmptyVocab, VocabA, VocabB}

LabelAlphabet == {"a", "b", "A", " ", "!", "_"}

NormLabels == {None} \cup {Some(s) : s \in SeqsUpTo(LabelAlphabet, MaxLabelLen)}

NormChoices == {<<>>, <<UriActionAb, UriActionB>>}

NormChoosers == {None, Some(None), Some(Some(UriActionAb)), Some(Some(UriSubjectA_b))}

NormalizeCall ==
    /\ norm_pc = "call"
    /\ norm_result' = Some(normalize_label(norm_label, norm_vocab, norm_choices, norm_chooser))
    /\ norm_pc' = "done"
    /\ UNCHANGED <<index, auxVars, extVars, norm_vocab, norm_label, norm_choices, norm_chooser, subVars, cloVars, engineVars>>

NormIdle ==
    /\ norm_vocab = EmptyVocab /\ norm_label = None /\ norm_choices = <<>>
    /\ norm_chooser = None /\ norm_pc = "idle" /\ norm_result = None

NoIndex == [parent_map |-> <<>>, derived_edges |-> {}]

----------------------------------------------------------------------------
(* core/models.py: NormalizedOperation, as far as the engine reads it.      *)

\* A NormalizedField of an operation: only normalized_uri is read downstream.
Field(uri) == [normalized_uri |-> Some(uri)]
NullField == [normalized_uri |-> None]

\* `x.normalized_uri if x else None` for an Optional field x
UriOf(optField) == IF IsNone(optField) THEN None ELSE Get(optField).normalized_uri

\* truthiness of an Optional str: not None and not ""
Truthy(optUri) == ~IsNone(optUri) /\ Get(optUri) # <<>>

\* [p.normalized_uri for p in purposes if p.normalized_uri]
RECURSIVE TruthyUris(_)
TruthyUris(fields) ==
    IF fields = <<>> THEN <<>>
    ELSE IF Truthy(Head(fields).normalized_uri)
         THEN <<Get(Head(fields).normalized_uri)>> \o TruthyUris(Tail(fields))
         ELSE TruthyUris(Tail(fields))

\* An evidence span is modelled by its quote.
BaseOp ==
    [op_id |-> "", action |-> Field(ActionShare), subject |-> Field(SubjectDeviceId),
     view |-> Field(ViewMay), purposes |-> <<Field(PurposeAnalytics)>>,
     recipient |-> None, source |-> None, legal_basis |-> None, manner |-> None,
     temporal |-> None, localisation |-> None, evidence_spans |-> << <<"q">> >>]

----------------------------------------------------------------------------
(* validate/constraints.py: validate_operations, has_blocking_errors.       *)

_ALLOWED_PREFIXES ==
    {<<"a","c","t","i","o","n">>, <<"s","u","b","j","e","c","t">>, <<"d","a","t","a">>,
     <<"p","u","r","p","o","s","e">>, <<"v","i","e","w">>,
     <<"r","e","c","i","p","i","e","n","t">>, <<"b","a","s","i","s">>,
     <<"c","o","n","t","e","x","t">>}

\* _prefix: None without a uri or without a colon, else the text before the first colon
_prefix(optUri) ==
    IF IsNone(optUri) \/ ~HasChar(Get(optUri), ":") THEN None
    ELSE Some(SubSeq(Get(optUri), 1, FirstChar(Get(optUri), ":") - 1))

\* issues.append(ValidationIssue(issue_id=f"issue_{idx}", ...)); idx += 1.
\* idx starts at len(issues) + 1 and grows with every append, so it is always
\* the position of the appended issue.
AppendIssue(issues_, level, message, op) ==
    Append(issues_, [issue_id |-> Len(issues_) + 1, level |-> level,
                    message |-> message, op_id |-> op.op_id])

\* lines 84-95: the URIs whose prefix is checked, in order
PrefixFields(op) ==
    <<op.action.normalized_uri, op.subject.normalized_uri, op.view.normalized_uri>>
    \o [i \in 1..Len(op.purposes) |-> op.purposes[i].normalized_uri]
    \o <<UriOf(op.recipient), UriOf(op.legal_basis), UriOf(op.manner),
         UriOf(op.temporal), UriOf(op.localisation), UriOf(op.source)>>

\* lines 97-111
RECURSIVE PrefixIssues(_, _, _, _)
PrefixIssues(issues_, fields, i, op) ==
    IF i > Len(fields) THEN issues_
    ELSE IF IsNone(fields[i]) THEN PrefixIssues(issues_, fields, i + 1, op)
    ELSE IF IsNone(_prefix(fields[i])) \/ Get(_prefix(fields[i])) \notin _ALLOWED_PREFIXES
         THEN PrefixIssues(AppendIssue(issues_, "warning", "URI prefix not in allowed set", op),
                           fields, i + 1, op)
         ELSE PrefixIssues(issues_, fields, i + 1, op)

\* lines 69-70: action_uri ends with "share" or "disclose"
IsShareOrDisclose(op) ==
    LET action_uri == IF IsNone(op.action.normalized_uri) THEN <<>> ELSE Get(op.action.normalized_uri)
    IN  \/ EndsWith(action_uri, <<"s","h","a","r","e">>)
        \/ EndsWith(action_uri, <<"d","i","s","c","l","o","s","e">>)

\* line 61 with the level of lines 37 and 49
ViewIssueLevelError == "error"

\* line 61: the level of the missing-view issue
ViewIssueLevel == "warning"

\* lines 32-111: the body of the loop for one operation
\* line 49 with the level of the softer checks
SubjectIssueLevelWarning == "warning"

\* line 49: a missing canonical subject is an error
SubjectIssueLevel == "error"

ValidateOp(issues_, op) ==
    LET i1 == IF IsNone(op.action.normalized_uri)
              THEN AppendIssue(issues_, "error", "Operation missing canonical action", op)
              ELSE issues_
        i2 == IF IsNone(op.subject.normalized_uri)
              THEN AppendIssue(i1, SubjectIssueLevel, "Operation missing canonical subject", op)
              ELSE i1
        i3 == IF IsNone(op.view.normalized_uri)
              THEN AppendIssue(i2, ViewIssueLevel, "Operation missing modality/view", op)
              ELSE i2
        i4 == IF IsShareOrDisclose(op) /\ IsNone(UriOf(op.recipient))
              THEN AppendIssue(i3, "warning", "Share/disclose operation missing recipient", op)
              ELSE i3
    IN  PrefixIssues(i4, PrefixFields(op), 1, op)

RECURSIVE ValidateFrom(_, _, _)
ValidateFrom(issues_, ops, i) ==
    IF i > Len(ops) THEN issues_ ELSE ValidateFrom(ValidateOp(issues_, ops[i]), ops, i + 1)

validate_operations(ops) == ValidateFrom(<<>>, ops, 1)

has_blocking_errors(issues_) == \E i \in 1..Len(issues_) : issues_[i].level = "error"

----------------------------------------------------------------------------
(* reason/compare.py: scoring and align_operations.                         *)

\* Scores in 1/4200ths: 1.0, 0.8, 0.6, 0.4, 0.2, 0.3 and the default min_score 1.25.
ScoreOne == 4200
SubjectSubsumedScore == 3360
ActionFamilyWeight == 4200
PurposeWeight == 2520
RecipientSourceBonus == 1680
ContextMatchBonus == 840
ContextMismatchPenalty == 1260
DefaultMinScore == 5250

FamShareReceive == <<"s","h","a","r","e","_","r","e","c","e","i","v","e">>
FamProcess == <<"p","r","o","c","e","s","s">>
FamRetain == <<"r","e","t","a","i","n">>
FamDelete == <<"d","e","l","e","t","e">>
FamTransfer == <<"t","r","a","n","s","f","e","r">>
FamSell == <<"s","e","l","l">>

_ACTION_FAMILY ==
    << [k |-> ActionShare, v |-> FamShareReceive], [k |-> ActionDisclose, v |-> FamShareReceive],
       [k |-> ActionCollect, v |-> FamShareReceive], [k |-> ActionReceive, v |-> FamShareReceive],
       [k |-> ActionUse, v |-> FamProcess], [k |-> ActionProcess, v |-> FamProcess],
       [k |-> ActionRetain, v |-> FamRetain], [k |-> ActionDelete, v |-> FamDelete],
       [k |-> ActionTransfer, v |-> FamTransfer], [k |-> ActionSell, v |-> FamSell] >>

\* _family: None for None, else _ACTION_FAMILY.get(uri, uri)
_family(optUri) ==
    IF IsNone(optUri) THEN None
    ELSE IF DictHas(_ACTION_FAMILY, Get(optUri)) THEN DictGet(_ACTION_FAMILY, Get(optUri))
    ELSE optUri

\* line 58 reduced to its first disjunct
RelatedOneWay(x, y, idx) == is_subsumed(x, y, idx)

\* is_subsumed(x, y, index) or is_subsumed(y, x, index)
Related(x, y, idx) == is_subsumed(x, y, idx) \/ is_subsumed(y, x, idx)

\* _subject_score; a and b are Optional URIs, optIdx an Optional index
_subject_score(a, b, optIdx) ==
    IF IsNone(a) \/ IsNone(b) THEN 0
    ELSE IF a = b THEN ScoreOne
    ELSE IF IsNone(optIdx) THEN 0
    ELSE IF Related(Get(a), Get(b), Get(optIdx)) THEN SubjectSubsumedScore
    ELSE 0

Min2(x, y) == IF x <= y THEN x ELSE y
Max2(x, y) == IF x >= y THEN x ELSE y

\* lines 57-60: does any right in b relate to left (the inner loop, until break)
RECURSIVE AnyRelated(_, _, _, _)
AnyRelated(left, b, j, idx) ==
    IF j > Len(b) THEN FALSE
    ELSE IF Related(left, b[j], idx) THEN TRUE
    ELSE AnyRelated(left, b, j + 1, idx)

\* lines 55-60: hits, one per element of a that has a related element in b
RECURSIVE CountHits(_, _, _, _)
CountHits(a, b, i, idx) ==
    IF i > Len(a) THEN 0
    ELSE (IF AnyRelated(a[i], b, 1, idx) THEN 1 ELSE 0) + CountHits(a, b, i + 1, idx)

\* _purpose_overlap, the ratio in 1/4200ths
_purpose_overlap(a, b, optIdx) ==
    IF a = <<>> \/ b = <<>> THEN 0
    ELSE IF IsNone(optIdx)
         THEN (Cardinality(Range(a) \cap Range(b)) * ScoreOne)
                  \div Max2(1, Cardinality(Range(a) \cup Range(b)))
         ELSE (CountHits(a, b, 1, Get(optIdx)) * ScoreOne) \div Max2(1, Min2(Len(a), Len(b)))

\* lines 112-116 and 117-121: one context slot under strict_context_compat
ContextDelta(fpField, tpField) ==
    IF Truthy(UriOf(fpField)) /\ Truthy(UriOf(tpField))
    THEN IF UriOf(fpField) = UriOf(tpField) THEN ContextMatchBonus ELSE 0 - ContextMismatchPenalty
    ELSE 0

\* lines 102-103: what the purpose overlap adds to the score
PurposeComponent(purp) == IF purp > 0 THEN (PurposeWeight * purp) \div ScoreOne ELSE 0

\* lines 83-121: the score and the reasons of one (fp, tp) candidate
CandidateScore(fp, tp, optIdx, strict_context_compat) ==
    LET subj   == _subject_score(fp.subject.normalized_uri, tp.subject.normalized_uri, optIdx)
        fam_fp == _family(fp.action.normalized_uri)
        fam_tp == _family(tp.action.normalized_uri)
        famOk  == Truthy(fam_fp) /\ Truthy(fam_tp) /\ fam_fp = fam_tp
        purp   == _purpose_overlap(TruthyUris(fp.purposes), TruthyUris(tp.purposes), optIdx)
        rsOk   == /\ Truthy(UriOf(fp.recipient)) /\ Truthy(UriOf(tp.source))
                  /\ UriOf(fp.recipient) = UriOf(tp.source)
    IN  [score |->
             (IF subj > 0 THEN (ScoreOne * subj) \div ScoreOne ELSE 0)
           + (IF famOk THEN ActionFamilyWeight ELSE 0)
           + PurposeComponent(purp)
           + (IF rsOk THEN RecipientSourceBonus ELSE 0)
           + (IF strict_context_compat
              THEN ContextDelta(fp.localisation, tp.localisation)
                   + ContextDelta(fp.temporal, tp.temporal)
              ELSE 0),
         reasons |->
             (IF subj > 0 THEN <<"subject_compatible">> ELSE <<>>)
          \o (IF famOk THEN <<"action_family_compatible">> ELSE <<>>)
          \o (IF purp > 0 THEN <<"purpose_overlap">> ELSE <<>>)
          \o (IF rsOk THEN <<"recipient_source_alignment">> ELSE <<>>)]

\* lines 80-81 dropped: a used third-party operation is scanned again
UsedSkipNever(tp, used) == FALSE

\* lines 80-81: if tp.op_id in used_tp: continue
UsedSkip(tp, used) == tp.op_id \in used

\* line 123 with >=: a later candidate of equal score replaces the best
BetterOrEqual(score, best_score) == score >= best_score

\* line 123: if score > best[0]
Better(score, best_score) == score > best_score

\* lines 78-124: the scan of tp_ops for one fp, from position j with the best so far
RECURSIVE BestFrom(_, _, _, _, _, _, _)
BestFrom(best, fp, tp_ops_, j, used, optIdx, strict_context_compat) ==
    IF j > Len(tp_ops_) THEN best
    ELSE IF UsedSkip(tp_ops_[j], used)
         THEN BestFrom(best, fp, tp_ops_, j + 1, used, optIdx, strict_context_compat)
         ELSE LET c == CandidateScore(fp, tp_ops_[j], optIdx, strict_context_compat)
              IN  BestFrom(IF Better(c.score, best.score)
                           THEN [score |-> c.score, tp |-> Some(tp_ops_[j]), reasons |-> c.reasons]
                           ELSE best,
                           fp, tp_ops_, j + 1, used, optIdx, strict_context_compat)

\* line 78: best = (0.0, None, [])
NoBest == [score |-> 0, tp |-> None, reasons |-> <<>>]

\* lines 77-136: the body of the outer loop for one fp: the pair it commits, if any
AlignOne(fp, tp_ops_, used, optIdx, strict_context_compat, min_score_) ==
    LET best == BestFrom(NoBest, fp, tp_ops_, 1, used, optIdx, strict_context_compat)
    IN  IF ~IsNone(best.tp) /\ best.score >= min_score_
        THEN Some([fp_op_id |-> fp.op_id, tp_op_id |-> Get(best.tp).op_id,
                   score |-> best.score, reasons |-> best.reasons])
        ELSE None

\* align_operations as a function: the outer loop from position i
RECURSIVE AlignFrom(_, _, _, _, _, _, _, _)
AlignFrom(i, fp_ops_, tp_ops_, used, acc, optIdx, strict_context_compat, min_score_) ==
    IF i > Len(fp_ops_) THEN acc
    ELSE LET p == AlignOne(fp_ops_[i], tp_ops_, used, optIdx, strict_context_compat, min_score_)
         IN  IF IsNone(p)
             THEN AlignFrom(i + 1, fp_ops_, tp_ops_, used, acc, optIdx, strict_context_compat, min_score_)
             ELSE AlignFrom(i + 1, fp_ops_, tp_ops_, used \cup {Get(p).tp_op_id},
                            Append(acc, Get(p)), optIdx, strict_context_compat, min_score_)

align_operations(fp_ops_, tp_ops_, optIdx, strict_context_compat, min_score_) ==
    AlignFrom(1, fp_ops_, tp_ops_, {}, <<>>, optIdx, strict_context_compat, min_score_)

----------------------------------------------------------------------------
(* reason/compare.py: the verifier and find_mismatches.                     *)

Decisions == {"CONFIRMED", "NOT_CONFIRMED", "UNDER_SPECIFIED"}

\* _quotes: the stripped, non-empty quotes of the spans
RECURSIVE _quotes(_)
_quotes(spans) ==
    IF spans = <<>> THEN <<>>
    ELSE IF Strip(Head(spans)) # <<>> THEN <<Strip(Head(spans))>> \o _quotes(Tail(spans))
    ELSE _quotes(Tail(spans))

\* _verifier_decision without lines 156-157
VerifierDecisionNoTypeTest(finding) ==
    IF finding.fp_evidence = <<>> \/ finding.tp_evidence = <<>> THEN "UNDER_SPECIFIED"
    ELSE IF _quotes(finding.fp_evidence) = <<>> \/ _quotes(finding.tp_evidence) = <<>>
         THEN "UNDER_SPECIFIED"
    ELSE "CONFIRMED"

\* line 238 whether or not an index is given
InScopeByMembership(p, fp_purposes, optIdx) == p \in Range(fp_purposes)

\* _verifier_decision, the default verifier: its decision
_verifier_decision(finding) ==
    IF finding.fp_evidence = <<>> \/ finding.tp_evidence = <<>> THEN "UNDER_SPECIFIED"
    ELSE IF _quotes(finding.fp_evidence) = <<>> \/ _quotes(finding.tp_evidence) = <<>>
         THEN "UNDER_SPECIFIED"
    ELSE IF finding.finding_type = "UnderSpecifiedRequirement" THEN "UNDER_SPECIFIED"
    ELSE "CONFIRMED"

\* (verifier or _verifier_decision)(finding).decision: what the call can return
VerifierAnswers(verifier_, finding) ==
    IF IsNone(verifier_) THEN {_verifier_decision(finding)} ELSE Decisions

\* lines 171-172, 177-178: {op.op_id: op for op in ops}.get(id); the last op wins
ById(ops, id) ==
    IF \E i \in 1..Len(ops) : ops[i].op_id = id
    THEN Some(ops[CHOOSE i \in 1..Len(ops) :
                     ops[i].op_id = id /\ \A j \in (i + 1)..Len(ops) : ops[j].op_id # id])
    ELSE None

\* line 183 testing the first-party side only
EvidencePreconditionFpOnly(fp, tp) == fp.evidence_spans # <<>>

\* line 183: both operations carry evidence spans
EvidencePrecondition(fp, tp) == fp.evidence_spans # <<>> /\ tp.evidence_spans # <<>>

\* lines 190-195
RequiredMissing(fp, tp) ==
    \/ IsNone(fp.action.normalized_uri) \/ IsNone(fp.subject.normalized_uri)
    \/ IsNone(tp.action.normalized_uri) \/ IsNone(tp.subject.normalized_uri)

\* `uri or ""`
OrEmpty(optUri) == IF Truthy(optUri) THEN Get(optUri) ELSE <<>>

\* lines 214-216
Contradiction(fp, tp) ==
    /\ EndsWith(OrEmpty(fp.view.normalized_uri), <<"d","o","_","n","o","t">>)
    /\ ~EndsWith(OrEmpty(tp.view.normalized_uri), <<"d","o","_","n","o","t">>)

\* lines 235-238: in_scope of one third-party purpose
InScope(p, fp_purposes, optIdx) ==
    IF ~IsNone(optIdx) THEN purpose_in_closure(p, fp_purposes, Get(optIdx))
    ELSE p \in Range(fp_purposes)

\* lines 233-240: extra_tp, in the order of tp_purposes
RECURSIVE ExtraFrom(_, _, _, _)
ExtraFrom(tp_purposes, i, fp_purposes, optIdx) ==
    IF i > Len(tp_purposes) THEN <<>>
    ELSE (IF InScope(tp_purposes[i], fp_purposes, optIdx) THEN <<>> ELSE <<tp_purposes[i]>>)
         \o ExtraFrom(tp_purposes, i + 1, fp_purposes, optIdx)

ExtraTp(fp, tp, optIdx) == ExtraFrom(TruthyUris(tp.purposes), 1, TruthyUris(fp.purposes), optIdx)

\* lines 264-266
BasisDiffers(fp, tp) ==
    /\ Truthy(UriOf(fp.legal_basis)) /\ Truthy(UriOf(tp.legal_basis))
    /\ UriOf(fp.legal_basis) # UriOf(tp.legal_basis)

\* the cascade with the purpose rule tried before the contradiction rule
CascadeTypePurposeFirst(fp, tp, optIdx) ==
    IF RequiredMissing(fp, tp) THEN "UnderSpecifiedRequirement"
    ELSE IF ExtraTp(fp, tp, optIdx) # <<>> THEN "PurposeMismatch"
    ELSE IF Contradiction(fp, tp) THEN "InconsistentRequirement"
    ELSE IF BasisDiffers(fp, tp) THEN "ConditionMismatch"
    ELSE "SatisfiedRequirement"

\* lines 196-295: which rule builds the finding (each branch ends in continue)
CascadeType(fp, tp, optIdx) ==
    IF RequiredMissing(fp, tp) THEN "UnderSpecifiedRequirement"
    ELSE IF Contradiction(fp, tp) THEN "InconsistentRequirement"
    ELSE IF ExtraTp(fp, tp, optIdx) # <<>> THEN "PurposeMismatch"
    ELSE IF BasisDiffers(fp, tp) THEN "ConditionMismatch"
    ELSE "SatisfiedRequirement"

\* the ComplianceFinding built by the rule; n is len(findings)
BuildFinding(type, pair, fp, tp, optIdx, n) ==
    [finding_id |-> n + 1,
     finding_type |-> type,
     status |-> IF type = "SatisfiedRequirement" THEN "Consistent" ELSE "PotentiallyNonCompliant",
     fp_op_id |-> fp.op_id,
     tp_op_id |-> tp.op_id,
     fp_evidence |-> fp.evidence_spans,
     tp_evidence |-> tp.evidence_spans,
     extra_tp_purposes |-> IF type = "PurposeMismatch" THEN ExtraTp(fp, tp, optIdx) ELSE <<>>,
     alignment_score |-> pair.score]

\* line 198 numbering by the pairs visited instead of the findings kept
IdBaseByPair(findings_, visited_) == visited_

\* line 198: len(findings), to which the id adds one
IdBase(findings_, visited_) == Len(findings_)

\* lines 177-295 up to the verifier call: the candidate finding of one pair, if any
Candidate(pair, fp_ops_, tp_ops_, optIdx, n) ==
    LET fp == ById(fp_ops_, pair.fp_op_id)
        tp == ById(tp_ops_, pair.tp_op_id)
    IN  IF IsNone(fp) \/ IsNone(tp) THEN None
        ELSE IF ~EvidencePrecondition(Get(fp), Get(tp)) THEN None
        ELSE Some(BuildFinding(CascadeType(Get(fp), Get(tp), optIdx),
                               pair, Get(fp), Get(tp), optIdx, n))

\* line 209 with the test of the other rules
KeepUnderSpecifiedOnlyConfirmed(decision) == decision = "CONFIRMED"

\* line 209: decision.decision != "NOT_CONFIRMED"
KeepUnderSpecified(decision) == decision # "NOT_CONFIRMED"

\* lines 228, 259, 278, 294 with the test of line 209
KeepOtherNotRejected(decision) == decision # "NOT_CONFIRMED"

\* lines 228, 259, 278, 294: decision == "CONFIRMED"
KeepOther(decision) == decision = "CONFIRMED"

Keep(finding, decision) ==
    IF finding.finding_type = "UnderSpecifiedRequirement"
    THEN KeepUnderSpecified(decision)
    ELSE KeepOther(decision)

\* find_mismatches as a function; oracle[i] is what a supplied verifier
\* answers for the candidate of the i-th pair
RECURSIVE FindFrom(_, _, _, _, _, _, _, _)
FindFrom(i, aligned, fp_ops_, tp_ops_, optIdx, verifier_, oracle, acc) ==
    IF i > Len(aligned) THEN acc
    ELSE LET cand == Candidate(aligned[i], fp_ops_, tp_ops_, optIdx, IdBase(acc, i - 1))
             d    == IF IsNone(verifier_) THEN _verifier_decision(Get(cand)) ELSE oracle[i]
         IN  FindFrom(i + 1, aligned, fp_ops_, tp_ops_, optIdx, verifier_, oracle,
                      IF ~IsNone(cand) /\ Keep(Get(cand), d) THEN Append(acc, Get(cand)) ELSE acc)

find_mismatches(aligned, fp_ops_, tp_ops_, optIdx, verifier_, oracle) ==
    FindFrom(1, aligned, fp_ops_, tp_ops_, optIdx, verifier_, oracle, <<>>)

\* whether find_mismatches hands some candidate to the verifier
VerifierReached(aligned, fp_ops_, tp_ops_, optIdx) ==
    \E i \in 1..Len(aligned) : ~IsNone(Candidate(aligned[i], fp_ops_, tp_ops_, optIdx, 0))

----------------------------------------------------------------------------
(* Inputs of the engine: a hierarchy index and two catalogues of            *)
(* operations, which between them reach every branch of the aligner's       *)
(* score, of the validator and of the detector's cascade.                   *)

\* subject:cookie_id has parent subject:device_id; rule edge advertising > marketing
ScenarioIndex ==
    [parent_map |-> (SubjectCookieId :> SubjectDeviceId),
     derived_edges |-> {<<PurposeAdvertising, PurposeMarketing>>}]

FpTemplates ==
    << BaseOp,
       [BaseOp EXCEPT !.view = Field(ViewDoNot), !.legal_basis = Some(Field(BasisConsent))],
       [BaseOp EXCEPT !.action = Field(ActionUse), !.subject = Field(SubjectCookieId),
                      !.purposes = <<Field(PurposeAdvertising)>>,
                      !.legal_basis = Some(Field(BasisConsent)),
                      !.recipient = Some(Field(RecipientPartner)),
                      !.localisation = Some(Field(ContextEu))],
       [BaseOp EXCEPT !.action = NullField, !.purposes = <<>>],
       [BaseOp EXCEPT !.purposes = <<NullField, Field(PurposeAnalytics)>>,
                      !.evidence_spans = <<>>] >>

TpTemplates ==
    << [BaseOp EXCEPT !.action = Field(ActionCollect), !.view = NullField,
                      !.purposes = <<Field(PurposeAdvertising), Field(PurposeAnalytics)>>],
       [BaseOp EXCEPT !.action = Field(ActionCollect),
                      !.purposes = <<Field(PurposeAnalytics), NullField>>,
                      !.legal_basis = Some(Field(BasisContract)),
                      !.source = Some(Field(RecipientPartner)),
                      !.localisation = Some(Field(ContextUs))],
       [BaseOp EXCEPT !.action = Field(ActionUse), !.subject = Field(SubjectCookieId),
                      !.purposes = <<Field(PurposeMarketing)>>,
                      !.legal_basis = Some(Field(BasisContract)),
                      !.localisation = Some(Field(ContextEu)),
                      !.evidence_spans = << <<" ">> >>],
       [BaseOp EXCEPT !.action = Field(ActionCollect), !.subject = NullField],
       [BaseOp EXCEPT !.action = Field(ActionCollect), !.view = Field(ViewDoNot),
                      !.evidence_spans = <<>>] >>

FpIds == <<"fp1", "fp2", "fp3", "fp4", "fp5", "fp6">>
TpIds == <<"tp1", "tp2", "tp3", "tp4", "tp5", "tp6">>

\* op_ids are unique within a run: the i-th operation of a list gets the i-th id
WithIds(ops, ids) == [i \in 1..Len(ops) |-> [ops[i] EXCEPT !.op_id = ids[i]]]

OpLists(templates, ids) == {WithIds(l, ids) : l \in SeqsUpTo(Range(templates), MaxOps)}

\* Operations for the validator: clean; share without recipient; no action;
\* no subject and no view; an action outside the allow-list with a recipient
\* that failed to normalize; no view; a purpose URI without a colon; neither
\* action nor subject.
ValTemplates ==
    << [BaseOp EXCEPT !.recipient = Some(Field(RecipientPartner))],
       BaseOp,
       [BaseOp EXCEPT !.action = NullField],
       [BaseOp EXCEPT !.action = Field(ActionCollect), !.subject = NullField, !.view = NullField],
       [BaseOp EXCEPT !.action = Field(<<"x",":","s","h","a","r","e">>),
                      !.recipient = Some(NullField)],
       [BaseOp EXCEPT !.action = Field(ActionCollect), !.view = NullField],
       [BaseOp EXCEPT !.action = Field(ActionCollect),
                      !.purposes = <<Field(<<"a","d","s">>)>>],
       [BaseOp EXCEPT !.action = NullField, !.subject = NullField] >>

\* index, or None when index_given is false
IdxArg == IF index_given THEN Some(index) ELSE None

----------------------------------------------------------------------------
(* align_operations as a process: one action per first-party operation.     *)

\* lines 77-136: one iteration of the outer loop
AlignStep ==
    /\ al_pc = "loop"
    /\ al_i < Len(fp_ops)
    /\ LET p == AlignOne(fp_ops[al_i + 1], tp_ops, used_tp, IdxArg, strict, min_score)
       IN  IF IsNone(p)
           THEN UNCHANGED <<used_tp, pairs>>
           ELSE /\ used_tp' = used_tp \cup {Get(p).tp_op_id}
                /\ pairs' = Append(pairs, Get(p))
    /\ al_i' = al_i + 1
    /\ UNCHANGED <<index, auxVars, extVars, subVars, cloVars, normVars, inputVars, min_score, al_pc,
                   detVars, pipeVars, findings>>

\* line 138: return pairs
AlignReturn ==
    /\ al_pc = "loop"
    /\ al_i = Len(fp_ops)
    /\ al_pc' = "done"
    /\ UNCHANGED <<index, auxVars, extVars, subVars, cloVars, normVars, inputVars, min_score, al_i, used_tp,
                   detVars, pipeVars, pairs, findings>>

AlignIdle == min_score = 0 /\ al_i = 0 /\ used_tp = {} /\ al_pc = "idle"

----------------------------------------------------------------------------
(* find_mismatches as a process: one action per aligned pair. The pairs are *)
(* any pairs (the caller's list is read one element at a time), over the    *)
(* ids of the two operation lists and an id neither list holds.             *)

PairInputs ==
    {[fp_op_id |-> f, tp_op_id |-> t, score |-> DefaultMinScore, reasons |-> <<>>] :
        f \in {fp_ops[i].op_id : i \in 1..Len(fp_ops)} \cup {"unknown"},
        t \in {tp_ops[i].op_id : i \in 1..Len(tp_ops)} \cup {"unknown"}}

\* lines 176-295: one iteration of the loop over aligned_ops
DetectStep ==
    /\ det_pc = "loop"
    /\ det_n < MaxPairs
    /\ \E pair \in PairInputs :
         LET cand == Candidate(pair, fp_ops, tp_ops, IdxArg, IdBase(findings, det_n))
         IN  IF IsNone(cand)
             THEN /\ findings' = findings
                  /\ det_last' = Some([pair |-> pair, candidate |-> None, decision |-> None,
                                       before |-> Len(findings)])
             ELSE \E d \in VerifierAnswers(verifier, Get(cand)) :
                  /\ findings' = IF Keep(Get(cand), d) THEN Append(findings, Get(cand))
                                 ELSE findings
                  /\ det_last' = Some([pair |-> pair, candidate |-> cand, decision |-> Some(d),
                                       before |-> Len(findings)])
    /\ det_n' = det_n + 1
    /\ UNCHANGED <<index, auxVars, extVars, subVars, cloVars, normVars, inputVars, alignVars, det_pc,
                   pipeVars, pairs>>

\* line 297: return findings
DetectReturn ==
    /\ det_pc = "loop"
    /\ det_pc' = "done"
    /\ UNCHANGED <<index, auxVars, extVars, subVars, cloVars, normVars, inputVars, alignVars, det_n, det_last,
                   pipeVars, pairs, findings>>

DetIdle == det_n = 0 /\ det_last = None /\ det_pc = "idle"

----------------------------------------------------------------------------
(* pipeline/run.py: run_pipeline from the normalized operations on.         *)

\* line 132 without the gate: find_mismatches whatever validation found
PipelineGateOpen(blocking_) == FALSE

\* line 132: `[] if blocking else find_mismatches(...)`
PipelineGate(blocking_) == blocking_

\* what a supplied verifier may answer for each of n pairs
Oracles(verifier_, n) ==
    IF IsNone(verifier_) THEN {[i \in 1..n |-> "CONFIRMED"]} ELSE [1..n -> Decisions]

\* lines 119-120
PipeValidate ==
    /\ pl_pc = "validate"
    /\ issues' = validate_operations(fp_ops \o tp_ops)
    /\ blocking' = has_blocking_errors(validate_operations(fp_ops \o tp_ops))
    /\ calls' = calls \cup {"validate_operations"}
    /\ pl_pc' = "align"
    /\ UNCHANGED <<index, auxVars, extVars, subVars, cloVars, normVars, inputVars, alignVars, detVars,
                   summary, pairs, findings>>

\* lines 124-130: align_operations is called with the default min_score
PipeAlign ==
    /\ pl_pc = "align"
    /\ pairs' = align_operations(fp_ops, tp_ops, Some(index), strict, DefaultMinScore)
    /\ calls' = calls \cup {"align_operations"}
    /\ pl_pc' = "reason"
    /\ UNCHANGED <<index, auxVars, extVars, subVars, cloVars, normVars, inputVars, alignVars, detVars,
                   issues, blocking, summary, findings>>

\* line 132, blocking: findings = []
PipeSkipMismatches ==
    /\ pl_pc = "reason"
    /\ PipelineGate(blocking)
    /\ findings' = <<>>
    /\ pl_pc' = "report"
    /\ UNCHANGED <<index, auxVars, extVars, subVars, cloVars, normVars, inputVars, alignVars, detVars,
                   issues, blocking, calls, summary, pairs>>

\* lines 132-138, not blocking: findings = find_mismatches(aligned, ...)
PipeFindMismatches ==
    /\ pl_pc = "reason"
    /\ ~PipelineGate(blocking)
    /\ \E oracle \in Oracles(verifier, Len(pairs)) :
           findings' = find_mismatches(pairs, fp_ops, tp_ops, Some(index), verifier, oracle)
    /\ calls' = calls \cup {"find_mismatches"}
                      \cup (IF VerifierReached(pairs, fp_ops, tp_ops, Some(index))
                            THEN {"verifier"} ELSE {})
    /\ pl_pc' = "report"
    /\ UNCHANGED <<index, auxVars, extVars, subVars, cloVars, normVars, inputVars, alignVars, detVars,
                   issues, blocking, summary, pairs>>

\* lines 28-30 with any finding at all taken for a non-compliance
ComplianceStatusAnyFinding(findings_) ==
    IF findings_ # <<>> THEN "PotentiallyNonCompliant" ELSE "Consistent"

\* report/report.py, lines 28-30: compliance_status
ComplianceStatus(findings_) ==
    IF \E i \in 1..Len(findings_) : findings_[i].status = "PotentiallyNonCompliant"
    THEN "PotentiallyNonCompliant" ELSE "Consistent"

\* lines 140-206: the machine report and the summary that are returned
PipeReport ==
    /\ pl_pc = "report"
    /\ summary' = Some([blocking_errors |-> blocking,
                        issues |-> Len(issues),
                        aligned_pairs |-> Len(pairs),
                        findings |-> Len(findings),
                        compliance_status |-> ComplianceStatus(findings),
                        finding_count |-> Len(findings)])
    /\ pl_pc' = "done"
    /\ UNCHANGED <<index, auxVars, extVars, subVars, cloVars, normVars, inputVars, alignVars, detVars,
                   issues, blocking, calls, pairs, findings>>

PipeIdle == pl_pc = "idle" /\ issues = <<>> /\ blocking = FALSE /\ calls = {} /\ summary = None

InputIdle ==
    /\ fp_ops = <<>> /\ tp_ops = <<>> /\ index_given = FALSE /\ strict = FALSE
    /\ verifier = None /\ pairs = <<>> /\ findings = <<>>

EngineIdle == InputIdle /\ AlignIdle /\ DetIdle /\ PipeIdle

----------------------------------------------------------------------------
(* normalize/normalize.py: _norm_slot and normalize_operation.              *)

\* the code points of the characters that occur in URIs, in increasing order
CodePointOrder ==
    <<" ", "!", "-", "0", "1", "2", "3", "4", "5", "6", "7", "8", "9", ":">>
        \o UpperLetters \o <<"_">> \o LowerLetters

Ord(c) == CHOOSE i \in 1..Len(CodePointOrder) : CodePointOrder[i] = c

\* s < t on Python strings: at the first difference, or s a proper prefix of t
RECURSIVE StrLess(_, _)
StrLess(s, t) ==
    IF t = <<>> THEN FALSE
    ELSE IF s = <<>> THEN TRUE
    ELSE IF Head(s) = Head(t) THEN StrLess(Tail(s), Tail(t))
    ELSE Ord(Head(s)) < Ord(Head(t))

\* sorted(S) for a set S of strings
RECURSIVE SortedStrings(_)
SortedStrings(S) ==
    IF S = {} THEN <<>>
    ELSE LET least == CHOOSE s \in S : \A t \in S \ {s} : StrLess(s, t)
         IN  <<least>> \o SortedStrings(S \ {least})

\* lines 86-89: the URIs of the index that start with allowed_prefix + ":"
SlotCandidates(vocab, allowed_prefix) ==
    LET idx == _build_index(vocab)
    IN  {idx[i].v : i \in {j \in 1..Len(idx) : StartsWith(idx[j].v, allowed_prefix \o <<":">>)}}

\* _norm_slot
_norm_slot(slot_label, vocab, allowed_prefix, chooser) ==
    normalize_label(slot_label, vocab, SortedStrings(SlotCandidates(vocab, allowed_prefix)), chooser)

PrefixAction == <<"a","c","t","i","o","n">>
PrefixSubject == <<"s","u","b","j","e","c","t">>
PrefixView == <<"v","i","e","w">>
PrefixPurpose == <<"p","u","r","p","o","s","e">>
PrefixRecipient == <<"r","e","c","i","p","i","e","n","t">>
PrefixContext == <<"c","o","n","t","e","x","t">>
PrefixBasis == <<"b","a","s","i","s">>

\* lines 104-123: the _norm_slot calls of normalize_operation, in the order
\* they are made; a context slot without a label makes no call (lines 114-115)
SlotCalls(op) ==
    << [slot |-> "action", label |-> op.action, prefix |-> PrefixAction],
       [slot |-> "subject", label |-> op.subject, prefix |-> PrefixSubject],
       [slot |-> "view", label |-> op.view, prefix |-> PrefixView] >>
    \o [i \in 1..Len(op.purposes) |->
           [slot |-> "purpose", label |-> op.purposes[i], prefix |-> PrefixPurpose]]
    \o << [slot |-> "recipient", label |-> op.recipient, prefix |-> PrefixRecipient],
          [slot |-> "source", label |-> op.source, prefix |-> PrefixContext],
          [slot |-> "legal_basis", label |-> op.legal_basis, prefix |-> PrefixBasis],
          [slot |-> "manner", label |-> op.manner, prefix |-> PrefixContext],
          [slot |-> "temporal", label |-> op.temporal, prefix |-> PrefixContext],
          [slot |-> "localisation", label |-> op.localisation, prefix |-> PrefixContext] >>

\* the calls in which normalize_label reaches the chooser (line 72)
ChooserCalls(op, vocab) ==
    {k \in 1..Len(SlotCalls(op)) :
        LET c == SlotCalls(op)[k]
        IN  /\ _norm_slot(c.label, vocab, c.prefix, None).reason = "unknown"
            /\ SlotCandidates(vocab, c.prefix) # {}}

\* the chooser argument of the k-th call: answers[k] is what the callable
\* returns when that call reaches it
ChooserAt(given, answers, k) ==
    IF ~given THEN None
    ELSE IF k \in DOMAIN answers THEN Some(answers[k]) ELSE Some(None)

\* a context slot: None without a label (ctx, lines 113-116)
CtxSlot(call, vocab, chooser) ==
    IF IsNone(call.label) THEN None ELSE Some(_norm_slot(call.label, vocab, call.prefix, chooser))

\* normalize_operation
normalize_operation(op, vocab, given, answers) ==
    LET calls_ == SlotCalls(op)
        n      == Len(op.purposes)
        slot(k) == _norm_slot(calls_[k].label, vocab, calls_[k].prefix, ChooserAt(given, answers, k))
        ctx(k)  == CtxSlot(calls_[k], vocab, ChooserAt(given, answers, k))
    IN  [op_id |-> op.op_id,
         action |-> slot(1), subject |-> slot(2), view |-> slot(3),
         purposes |-> [i \in 1..n |-> slot(3 + i)],
         recipient |-> ctx(n + 4), source |-> ctx(n + 5), legal_basis |-> ctx(n + 6),
         manner |-> ctx(n + 7), temporal |-> ctx(n + 8), localisation |-> ctx(n + 9),
         evidence_spans |-> op.evidence_spans]

\* Inputs: OperationCandidates by their labels, over the vocabularies above.
SlotLabels == {None, Some(<<"A","b">>), Some(<<"a"," ","b">>), Some(<<"z">>), Some(<<"!">>)}

PurposeLabelLists == {<<>>, <<Some(<<"a">>)>>, <<Some(<<"z">>), Some(<<"a">>)>>}

OperationCandidates ==
    {[op_id |-> "op1", action |-> a, subject |-> s, view |-> v, purposes |-> ps,
      recipient |-> r, source |-> so, legal_basis |-> None, manner |-> None,
      temporal |-> None, localisation |-> None, evidence_spans |-> << <<"q">> >>] :
        a \in SlotLabels, s \in SlotLabels, v \in SlotLabels, ps \in PurposeLabelLists,
        r \in {None, Some(<<"z">>)}, so \in {None, Some(<<"b","a">>)}}

\* what a chooser may return: None, a URI of the vocabularies, any other string
ChooserPicks == {None, Some(UriActionAb), Some(UriSubjectA_b), Some(UriPurposeA)}

NormOpCall ==
    /\ nop_pc = "call"
    /\ \E answers \in [ChooserCalls(Get(nop_op), nop_vocab) -> ChooserPicks] :
           nop_result' = Some(normalize_operation(Get(nop_op), nop_vocab, nop_chooser, answers))
    /\ nop_pc' = "done"
    /\ UNCHANGED <<index, auxVars, subVars, cloVars, normVars, engineVars, nop_op, nop_vocab,
                   nop_chooser, verVars, ctxVars, loadVars>>

----------------------------------------------------------------------------
(* reason/openai_verifier.py and llm/openai_client.py: the verifier adapter. *)
(* A decision is a Python string here, as the API sends it.                  *)

\* str.upper() on one character
UpperChar(c) ==
    IF \E i \in 1..Len(LowerLetters) : LowerLetters[i] = c
    THEN UpperLetters[CHOOSE i \in 1..Len(LowerLetters) : LowerLetters[i] = c]
    ELSE c

\* str.upper()
Upper(s) == [i \in 1..Len(s) |-> UpperChar(s[i])]

StrConfirmed == <<"C","O","N","F","I","R","M","E","D">>
StrNotConfirmed == <<"N","O","T","_">> \o StrConfirmed
StrUnderSpecified == <<"U","N","D","E","R","_","S","P","E","C","I","F","I","E","D">>

\* openai_verifier.py line 11
_ALLOWED == {StrConfirmed, StrNotConfirmed, StrUnderSpecified}

\* A JSON value under a key: missing (None), or Some([isstr, s]); s is the
\* text of a string, and a value of another type has isstr false.
JsonStr(s) == Some([isstr |-> TRUE, s |-> s])
JsonOther == Some([isstr |-> FALSE, s |-> <<>>])

\* OpenAIFindingVerifier._parse
_parse(raw) ==
    LET d0 == IF ~IsNone(raw.decision) /\ Get(raw.decision).isstr
              THEN Upper(Strip(Get(raw.decision).s)) ELSE StrUnderSpecified
    IN  [decision |-> IF d0 \notin _ALLOWED THEN StrUnderSpecified ELSE d0,
         rationale |-> IF ~IsNone(raw.rationale) /\ Get(raw.rationale).isstr
                          /\ Strip(Get(raw.rationale).s) # <<>>
                       THEN Strip(Get(raw.rationale).s)
                       ELSE <<"v","e","r","i","f","i","e","r","_","n","o","_",
                              "r","a","t","i","o","n","a","l","e">>]

\* what the call ends with: a VerificationDecision returned, or an exception
Returned(decision) == [raised |-> None, decision |-> Some(decision)]
Raised(exc) == [raised |-> Some(exc), decision |-> None]

\* The environment of one call: whether an API key is configured, what
\* requests.post does, and what the response holds.
PostOutcomes == {"Timeout", "ConnectionError", "response"}
StatusCodes == {200, 429, 500}
Bodies == {"not_json", "no_choices", "content_not_str", "content_not_json",
           "content_not_object", "content_object"}
RawDecisions ==
    {None, JsonOther, JsonStr(<<" ","c","o","n","f","i","r","m","e","d"," ">>),
     JsonStr(StrNotConfirmed), JsonStr(StrUnderSpecified), JsonStr(<<"m","a","y","b","e">>)}
RawRationales == {None, JsonStr(<<" ">>), JsonStr(<<"o","k">>)}

VerEnvs ==
    {[key |-> k, post |-> p, status |-> st, body |-> b, decision |-> d, rationale |-> r] :
        k \in BOOLEAN, p \in PostOutcomes, st \in StatusCodes, b \in Bodies,
        d \in RawDecisions, r \in RawRationales}

\* __call__ line 48 into complete_json lines 30-42: _api_key() raises without a key
VerCall ==
    /\ ver_pc = "call"
    /\ IF Get(ver_env).key
       THEN ver_pc' = "post" /\ UNCHANGED ver_result
       ELSE ver_pc' = "done" /\ ver_result' = Some(Raised("OpenAIClientError"))
    /\ UNCHANGED <<index, auxVars, subVars, cloVars, normVars, engineVars, nopVars, ctxVars, loadVars,
                   ver_env, ver_raw>>

\* complete_json lines 43-48: requests.post returns a response or raises
VerPost ==
    /\ ver_pc = "post"
    /\ IF Get(ver_env).post = "response"
       THEN ver_pc' = "read" /\ UNCHANGED ver_result
       ELSE ver_pc' = "done" /\ ver_result' = Some(Raised(Get(ver_env).post))
    /\ UNCHANGED <<index, auxVars, subVars, cloVars, normVars, engineVars, nopVars, ctxVars, loadVars,
                   ver_env, ver_raw>>

\* complete_json lines 49-68: the checks on the response; none is caught in
\* __call__ (line 48), so each raise ends the call
VerRead ==
    /\ ver_pc = "read"
    /\ LET e == Get(ver_env)
       IN  IF e.status >= 400
           THEN ver_pc' = "done" /\ ver_result' = Some(Raised("OpenAIClientError")) /\ UNCHANGED ver_raw
           ELSE IF e.body = "not_json"
           THEN ver_pc' = "done" /\ ver_result' = Some(Raised("JSONDecodeError")) /\ UNCHANGED ver_raw
           ELSE IF e.body \in {"no_choices", "content_not_str", "content_not_json", "content_not_object"}
           THEN ver_pc' = "done" /\ ver_result' = Some(Raised("OpenAIClientError")) /\ UNCHANGED ver_raw
           ELSE /\ ver_pc' = "parse"
                /\ ver_raw' = Some([decision |-> e.decision, rationale |-> e.rationale])
                /\ UNCHANGED ver_result
    /\ UNCHANGED <<index, auxVars, subVars, cloVars, normVars, engineVars, nopVars, ctxVars, loadVars,
                   ver_env>>

\* __call__ line 49: return self._parse(raw)
VerParse ==
    /\ ver_pc = "parse"
    /\ ver_result' = Some(Returned(_parse(Get(ver_raw)).decision))
    /\ ver_pc' = "done"
    /\ UNCHANGED <<index, auxVars, subVars, cloVars, normVars, engineVars, nopVars, ctxVars, loadVars,
                   ver_env, ver_raw>>

----------------------------------------------------------------------------
(* ontology/compatibility.py: is_context_compatible.                        *)

\* bool(rule.get("compatible", False)) for a JSON value: missing, null,
\* false and true
Bool(json) == json = "true"

\* line 63 with the first orientation only
RuleMatchesOneWay(rule, a, b) == rule.a = a /\ rule.b = b

\* line 63: the entry names the pair in either orientation
RuleMatches(rule, a, b) == (rule.a = a /\ rule.b = b) \/ (rule.a = b /\ rule.b = a)

\* lines 61-64: the first entry, facet by facet, that matches
RECURSIVE FirstMatch(_, _, _, _)
FirstMatch(entries, i, a, b) ==
    IF i > Len(entries) THEN None
    ELSE IF RuleMatches(entries[i], a, b) THEN Some(entries[i])
    ELSE FirstMatch(entries, i + 1, a, b)

\* is_context_compatible; context_compatibility is the list of the facets'
\* entry lists, in the order of the dict
is_context_compatible(a, b, context_compatibility) ==
    IF IsNone(a) \/ IsNone(b) THEN TRUE
    ELSE IF a = b THEN TRUE
    ELSE LET hit == FirstMatch(Flatten(context_compatibility), 1, a, b)
         IN  IF IsNone(hit) THEN TRUE ELSE Bool(Get(hit).compatible)

\* Inputs: override entries over two context URIs, in two facets.
RuleEntries ==
    {[a |-> Some(x), b |-> Some(y), compatible |-> c] :
        x \in {ContextEu, ContextUs}, y \in {ContextUs, ContextPartner},
        c \in {"missing", "false", "true"}}

\* the first entry under one facet, the others under a second
InFacets(entries) ==
    IF entries = <<>> THEN <<>>
    ELSE <<SubSeq(entries, 1, 1), SubSeq(entries, 2, Len(entries))>>

ContextArgs == {None, Some(ContextEu), Some(ContextUs), Some(ContextPartner)}

CtxCall ==
    /\ ctx_pc = "call"
    /\ ctx_result' = Some(is_context_compatible(ctx_a, ctx_b, ctx_rules))
    /\ ctx_pc' = "done"
    /\ UNCHANGED <<index, auxVars, subVars, cloVars, normVars, engineVars, nopVars, verVars, loadVars,
                   ctx_a, ctx_b, ctx_rules>>

----------------------------------------------------------------------------
(* ontology/loader.py: _to_terms.                                           *)

\* Python's `x or y` on two Optional strings
OrElse(x, y) == IF Truthy(x) THEN x ELSE y

\* lines 79-91: the VocabTerm of one item, None for an item without a URI
TermOf(item) ==
    LET uri == OrElse(item.uri, item.id)
    IN  IF ~Truthy(uri) THEN None
        ELSE Some(VocabTerm(Get(uri),
                            Get(OrElse(OrElse(item.label, item.preferred_label),
                                       Some(TailAfterFirstColon(Get(uri))))),
                            OrElse(item.parent, item.parent_id),
                            item.alt_labels))

\* _to_terms
RECURSIVE _to_terms(_)
_to_terms(items) ==
    IF items = <<>> THEN <<>>
    ELSE (IF IsNone(TermOf(Head(items))) THEN <<>> ELSE <<Get(TermOf(Head(items)))>>)
         \o _to_terms(Tail(items))

\* Inputs: the entries of a vocabulary file.
UriOneColon == <<"x",":","y">>
UriTwoColons == <<"a",":","b",":","c">>

VocabItems ==
    {[uri |-> u, id |-> i, label |-> l, preferred_label |-> p,
      parent |-> None, parent_id |-> None, alt_labels |-> <<>>] :
        u \in {None, Some(<<>>), Some(UriTwoColons)},
        i \in {None, Some(UriOneColon)},
        l \in {None, Some(<<>>), Some(<<"L">>)},
        p \in {None, Some(<<"P">>)}}

ToTermsCall ==
    /\ load_pc = "call"
    /\ load_terms' = Some(_to_terms(load_items))
    /\ load_pc' = "done"
    /\ UNCHANGED <<index, auxVars, subVars, cloVars, normVars, engineVars, nopVars, verVars, ctxVars,
                   load_items>>

----------------------------------------------------------------------------
(* ontology/loader.py: load_vocab.                                          *)

\* what load_vocab ends with: a Vocabulary returned, or an exception
VocabReturned(vocab) == [raised |-> None, vocab |-> Some(vocab)]
VocabRaised(exc) == [raised |-> Some(exc), vocab |-> None]

\* str.rfind("."): the last position of a dot, 0 when there is none
\* (Python's positions are one less; -1 when there is none)
RFindDot(name) ==
    IF HasChar(name, ".")
    THEN CHOOSE i \in 1..Len(name) :
            name[i] = "." /\ \A j \in (i + 1)..Len(name) : name[j] # "."
    ELSE 0

\* pathlib's PurePath.suffix: from the last dot of the final component, empty
\* when the dot is the first or the last character or there is none
Suffix(name) ==
    LET i == RFindDot(name)
    IN  IF 1 < i /\ i < Len(name) THEN SubSeq(name, i, Len(name)) ELSE <<>>

ExtJson == <<".","j","s","o","n">>

\* Path.is_dir()
IsDir(path) == path.kind \in {"dir", "empty_dir"}

\* lines 112-135: the six facet files of a directory; a missing one makes
\* _load_json raise
_load_vocab_dir(path) ==
    IF path.kind = "empty_dir" THEN VocabRaised("FileNotFoundError")
    ELSE VocabReturned([EmptyVocab EXCEPT !.purposes = _to_terms(path.doc)])

\* lines 95-109: one document; opening a path that does not exist raises
_load_vocab_json(path) ==
    IF path.kind = "missing" THEN VocabRaised("FileNotFoundError")
    ELSE VocabReturned([EmptyVocab EXCEPT !.purposes = _to_terms(path.doc)])

\* line 71
UnsupportedSuffix(path) == Lower(Suffix(path.name)) # ExtJson

\* load_vocab
load_vocab(path) ==
    IF IsDir(path) THEN _load_vocab_dir(path)
    ELSE IF UnsupportedSuffix(path) THEN VocabRaised("ValueError")
    ELSE _load_vocab_json(path)

\* Inputs: a path (its final component and what the file system holds there)
\* and the purposes terms of the document: the "terms" of purposes.json in a
\* directory, the "purposes" array of a single document; the other facets
\* are empty.
PathStems == SeqsUpTo({"v", "."}, MaxStemLen)

PathExtensions ==
    {<<>>, ExtJson, <<".","J","S","O","N">>, <<".","y","a","m","l">>, <<".","y","m","l">>,
     <<".","j","s","o","n",".">>, <<"j","s","o","n">>, <<".","j","s","o","n",".","b","a","k">>}

PathKinds == {"dir", "empty_dir", "file", "missing"}

PathDocs ==
    SeqsUpTo({it \in VocabItems :
                 it.id = None /\ it.preferred_label = None /\ it.label # Some(<<>>)}, 1)

Paths ==
    {p \in {[name |-> stem \o ext, kind |-> k, doc |-> d] :
               stem \in PathStems, ext \in PathExtensions, k \in PathKinds, d \in PathDocs} :
        /\ \E i \in 1..Len(p.name) : p.name[i] # "."
        /\ p.kind \in {"empty_dir", "missing"} => p.doc = <<>>}

LoadVocabCall ==
    /\ lv_pc = "call"
    /\ lv_result' = Some(load_vocab(Get(lv_path)))
    /\ lv_pc' = "done"
    /\ UNCHANGED <<index, subVars, cloVars, normVars, engineVars, extVars, ovVars, lv_path>>

----------------------------------------------------------------------------
(* reason/compare.py: _purpose_overlap as a call of its own.                *)

\* Inputs: purpose hierarchies. A chain (analytics under marketing under
\* advertising), a star (marketing and analytics under advertising), the
\* scenario's rule edge, and an index with no hierarchy at all.
ChainIndex ==
    [parent_map |-> (PurposeMarketing :> PurposeAdvertising) @@
                    (PurposeAnalytics :> PurposeMarketing),
     derived_edges |-> {}]

StarIndex ==
    [parent_map |-> (PurposeMarketing :> PurposeAdvertising) @@
                    (PurposeAnalytics :> PurposeAdvertising),
     derived_edges |-> {}]

OverlapIndexes == {NoIndex, ScenarioIndex, ChainIndex, StarIndex}

OverlapCall ==
    /\ ov_pc = "call"
    /\ ov_result' =
          LET purp == _purpose_overlap(ov_a, ov_b, IF ov_given THEN Some(index) ELSE None)
          IN  Some([ratio |-> purp, component |-> PurposeComponent(purp)])
    /\ ov_pc' = "done"
    /\ UNCHANGED <<index, subVars, cloVars, normVars, engineVars, extVars, lvVars,
                   ov_a, ov_b, ov_given>>

----------------------------------------------------------------------------
(* The components that are not running in a specification stay idle.        *)

NopIdle ==
    /\ nop_op = None /\ nop_vocab = EmptyVocab /\ nop_chooser = FALSE
    /\ nop_pc = "idle" /\ nop_result = None

VerIdle == ver_env = None /\ ver_pc = "idle" /\ ver_raw = None /\ ver_result = None

CtxIdle ==
    /\ ctx_a = None /\ ctx_b = None /\ ctx_rules = <<>>
    /\ ctx_pc = "idle" /\ ctx_result = None

LoadIdle == load_items = <<>> /\ load_pc = "idle" /\ load_terms = None

ExtIdle == NopIdle /\ VerIdle /\ CtxIdle /\ LoadIdle

LvIdle == lv_path = None /\ lv_pc = "idle" /\ lv_result = None

OvIdle == ov_a = <<>> /\ ov_b = <<>> /\ ov_given = FALSE /\ ov_pc = "idle" /\ ov_result = None

AuxIdle == LvIdle /\ OvIdle

----------------------------------------------------------------------------
(* Specifications.                                                          *)

InitSubsume ==
    /\ index \in HierarchyIndexes(PurposeUris, MaxEdges)
    /\ q_parent \in PurposeUris
    /\ q_child \in PurposeUris
    /\ current = None
    /\ visited = {}
    /\ sub_pc = "call"
    /\ sub_result = None
    /\ CloIdle /\ NormIdle /\ EngineIdle /\ ExtIdle /\ AuxIdle

NextSubsume == SubCall \/ SubWalkStep \/ SubWalkExit

SpecSubsume == InitSubsume /\ [][NextSubsume]_vars

\* is_subsumed is straight-line sequential code: a call that can take a step
\* takes it.
FairSpecSubsume == SpecSubsume /\ WF_vars(NextSubsume)

InitClosure ==
    /\ index \in HierarchyIndexes(PurposeUris, MaxEdges)
    /\ clo_target \in PurposeUris
    /\ clo_allowed \in SeqsUpTo(PurposeUris, MaxAllowed)
    /\ clo_pc = "call"
    /\ clo_result = None
    /\ SubIdle /\ NormIdle /\ EngineIdle /\ ExtIdle /\ AuxIdle

NextClosure == ClosureCall

SpecClosure == InitClosure /\ [][NextClosure]_vars

InitNormalize ==
    /\ index = NoIndex
    /\ norm_vocab \in NormVocabs
    /\ norm_label \in NormLabels
    /\ norm_choices \in NormChoices
    /\ norm_chooser \in NormChoosers
    /\ norm_pc = "call"
    /\ norm_result = None
    /\ SubIdle /\ CloIdle /\ EngineIdle /\ ExtIdle /\ AuxIdle

NextNormalize == NormalizeCall

SpecNormalize == InitNormalize /\ [][NextNormalize]_vars

MinScores == {DefaultMinScore, 0}

InitAlign ==
    /\ index = ScenarioIndex
    /\ index_given \in BOOLEAN
    /\ fp_ops \in OpLists(FpTemplates, FpIds)
    /\ tp_ops \in OpLists(TpTemplates, TpIds)
    /\ strict \in BOOLEAN
    /\ min_score \in MinScores
    /\ al_i = 0 /\ used_tp = {} /\ pairs = <<>> /\ al_pc = "loop"
    /\ verifier = None /\ findings = <<>>
    /\ SubIdle /\ CloIdle /\ NormIdle /\ DetIdle /\ PipeIdle /\ ExtIdle /\ AuxIdle

NextAlign == AlignStep \/ AlignReturn

SpecAlign == InitAlign /\ [][NextAlign]_vars

InitDetect ==
    /\ index = ScenarioIndex
    /\ index_given \in BOOLEAN
    /\ fp_ops = WithIds(FpTemplates, FpIds)
    /\ tp_ops = WithIds(TpTemplates, TpIds)
    /\ verifier \in {None, Some("plugged")}
    /\ findings = <<>> /\ det_n = 0 /\ det_last = None /\ det_pc = "loop"
    /\ strict = FALSE /\ pairs = <<>>
    /\ SubIdle /\ CloIdle /\ NormIdle /\ AlignIdle /\ PipeIdle /\ ExtIdle /\ AuxIdle

NextDetect == DetectStep \/ DetectReturn

SpecDetect == InitDetect /\ [][NextDetect]_vars

InitPipeline ==
    /\ index = ScenarioIndex
    /\ index_given = TRUE
    /\ fp_ops \in OpLists(FpTemplates, FpIds)
    /\ tp_ops \in OpLists(TpTemplates, TpIds)
    /\ strict \in BOOLEAN
    /\ verifier \in {None, Some("plugged")}
    /\ pl_pc = "validate" /\ issues = <<>> /\ blocking = FALSE /\ calls = {}
    /\ summary = None /\ pairs = <<>> /\ findings = <<>>
    /\ SubIdle /\ CloIdle /\ NormIdle /\ AlignIdle /\ DetIdle /\ ExtIdle /\ AuxIdle

NextPipeline ==
    PipeValidate \/ PipeAlign \/ PipeSkipMismatches \/ PipeFindMismatches \/ PipeReport

SpecPipeline == InitPipeline /\ [][NextPipeline]_vars

InitNormOp ==
    /\ index = NoIndex
    /\ nop_op \in {Some(op) : op \in OperationCandidates}
    /\ nop_vocab \in NormVocabs
    /\ nop_chooser \in BOOLEAN
    /\ nop_pc = "call" /\ nop_result = None
    /\ SubIdle /\ CloIdle /\ NormIdle /\ EngineIdle /\ VerIdle /\ CtxIdle /\ LoadIdle /\ AuxIdle

NextNormOp == NormOpCall

SpecNormOp == InitNormOp /\ [][NextNormOp]_vars

InitValidate ==
    /\ index = ScenarioIndex
    /\ index_given = TRUE
    /\ fp_ops \in OpLists(ValTemplates, FpIds)
    /\ tp_ops \in OpLists(ValTemplates, TpIds)
    /\ Len(fp_ops) + Len(tp_ops) <= MaxOps
    /\ strict = FALSE
    /\ verifier = None
    /\ pl_pc = "validate" /\ issues = <<>> /\ blocking = FALSE /\ calls = {}
    /\ summary = None /\ pairs = <<>> /\ findings = <<>>
    /\ SubIdle /\ CloIdle /\ NormIdle /\ AlignIdle /\ DetIdle /\ ExtIdle /\ AuxIdle

NextValidate == PipeValidate

SpecValidate == InitValidate /\ [][NextValidate]_vars

InitVerifier ==
    /\ index = NoIndex
    /\ ver_env \in {Some(e) : e \in VerEnvs}
    /\ ver_pc = "call" /\ ver_raw = None /\ ver_result = None
    /\ SubIdle /\ CloIdle /\ NormIdle /\ EngineIdle /\ NopIdle /\ CtxIdle /\ LoadIdle /\ AuxIdle

NextVerifier == VerCall \/ VerPost \/ VerRead \/ VerParse

SpecVerifier == InitVerifier /\ [][NextVerifier]_vars

InitContext ==
    /\ index = NoIndex
    /\ ctx_a \in ContextArgs
    /\ ctx_b \in ContextArgs
    /\ ctx_rules \in {InFacets(l) : l \in SeqsUpTo(RuleEntries, MaxRules)}
    /\ ctx_pc = "call" /\ ctx_result = None
    /\ SubIdle /\ CloIdle /\ NormIdle /\ EngineIdle /\ NopIdle /\ VerIdle /\ LoadIdle /\ AuxIdle

NextContext == CtxCall

SpecContext == InitContext /\ [][NextContext]_vars

InitLoad ==
    /\ index = NoIndex
    /\ load_items \in SeqsUpTo(VocabItems, MaxItems)
    /\ load_pc = "call" /\ load_terms = None
    /\ SubIdle /\ CloIdle /\ NormIdle /\ EngineIdle /\ NopIdle /\ VerIdle /\ CtxIdle /\ AuxIdle

NextLoad == ToTermsCall

SpecLoad == InitLoad /\ [][NextLoad]_vars

InitOverlap ==
    /\ index \in OverlapIndexes
    /\ ov_a \in SeqsUpTo(PurposeUris, MaxPurposes)
    /\ ov_b \in SeqsUpTo(PurposeUris, MaxPurposes)
    /\ ov_given \in BOOLEAN
    /\ ov_pc = "call" /\ ov_result = None
    /\ SubIdle /\ CloIdle /\ NormIdle /\ EngineIdle /\ ExtIdle /\ LvIdle

NextOverlap == OverlapCall

SpecOverlap == InitOverlap /\ [][NextOverlap]_vars

InitLoadVocab ==
    /\ index = NoIndex
    /\ lv_path \in {Some(p) : p \in Paths}
    /\ lv_pc = "call" /\ lv_result = None
    /\ SubIdle /\ CloIdle /\ NormIdle /\ EngineIdle /\ ExtIdle /\ OvIdle

NextLoadVocab == LoadVocabCall

SpecLoadVocab == InitLoadVocab /\ [][NextLoadVocab]_vars

----------------------------------------------------------------------------
(* Claims about subsumption.                                                *)

\* The nodes met by following at most n parent links upward from u.
RECURSIVE UpChain(_, _, _)
UpChain(u, pm, n) ==
    IF n = 0 \/ u \notin DOMAIN pm THEN {}
    ELSE {pm[u]} \cup UpChain(pm[u], pm, n - 1)

Ancestors(u, idx) == UpChain(u, idx.parent_map, Cardinality(DOMAIN idx.parent_map))

\* parent = child, or a rule edge (parent, child), or parent among child's ancestors
Subsumes(parent, child, idx) ==
    \/ parent = child
    \/ <<parent, child>> \in idx.derived_edges
    \/ parent \in Ancestors(child, idx)

\* C7: is_subsumed(parent, child) is true exactly when parent = child, or
\* (parent, child) is a rule edge, or parent is met walking child's parent
\* chain upward, and false otherwise; so it is reflexive, and a rule edge or a
\* parent link is never read from child to parent. Stated of the function for
\* every pair of URIs and of the finished call.
C7_SubsumedExactly ==
    /\ \A p \in PurposeUris, c \in PurposeUris :
           is_subsumed(p, c, index) = Subsumes(p, c, index)
    /\ \A x \in PurposeUris : is_subsumed(x, x, index)
    /\ sub_pc = "done" => Get(sub_result) = Subsumes(q_parent, q_child, index)

\* A finished call that answered False although the index holds the rule edge
\* and the parent link in the reverse direction.
C7_Witness ==
    /\ sub_pc = "done"
    /\ Get(sub_result) = FALSE
    /\ <<q_child, q_parent>> \in index.derived_edges
    /\ q_parent \in DOMAIN index.parent_map
    /\ index.parent_map[q_parent] = q_child

\* The parent chain of child never leaves parent_map (it runs into a cycle)
\* and the call is not answered before or during the walk.
CyclicChainWithoutParent ==
    /\ q_parent # q_child
    /\ <<q_parent, q_child>> \notin index.derived_edges
    /\ ({q_child} \cup Ancestors(q_child, index)) \subseteq DOMAIN index.parent_map
    /\ q_parent \notin Ancestors(q_child, index)

\* C8: is_subsumed terminates for every pair of URIs and every parent_map,
\* cyclic ones included; on a cyclic chain that does not contain parent it
\* stops at the first revisited node (every node of the chain visited once,
\* current back on a visited node) and returns False.
C8_Terminates ==
    /\ <>(sub_pc = "done")
    /\ [](sub_pc = "done" /\ CyclicChainWithoutParent =>
             /\ Get(sub_result) = FALSE
             /\ Get(current) \in visited
             /\ visited = {q_child} \cup Ancestors(q_child, index))

\* A finished call on a cycle of two nodes that does not contain parent.
C8_Witness ==
    /\ sub_pc = "done"
    /\ CyclicChainWithoutParent
    /\ Cardinality(visited) = 2
    /\ Get(sub_result) = FALSE

\* C9: purpose_in_closure(target, allowed) is true iff some URI of allowed
\* subsumes target under is_subsumed (so false for an empty list); with the
\* rule edge (purpose:advertising, purpose:marketing), purpose:marketing is in
\* the closure of [purpose:advertising] and an unrelated purpose:analytics is
\* not.
C9_ClosureIffSomeAllowedSubsumes ==
    clo_pc = "done" =>
        /\ Get(clo_result) =
               (\E i \in 1..Len(clo_allowed) : Subsumes(clo_allowed[i], clo_target, index))
        /\ clo_allowed = <<>> => Get(clo_result) = FALSE
        /\ ( /\ clo_allowed = <<PurposeAdvertising>>
             /\ <<PurposeAdvertising, PurposeMarketing>> \in index.derived_edges
             /\ clo_target = PurposeMarketing ) => Get(clo_result) = TRUE
        /\ ( /\ clo_allowed = <<PurposeAdvertising>>
             /\ index.derived_edges = {<<PurposeAdvertising, PurposeMarketing>>}
             /\ PurposeAnalytics \notin DOMAIN index.parent_map
             /\ clo_target = PurposeAnalytics ) => Get(clo_result) = FALSE

\* A finished call answered True by the second URI of allowed alone, through
\* the rule edge of the scenario.
C9_Witness ==
    /\ clo_pc = "done"
    /\ Get(clo_result) = TRUE
    /\ clo_allowed = <<PurposeAnalytics, PurposeAdvertising>>
    /\ clo_target = PurposeMarketing
    /\ index.derived_edges = {<<PurposeAdvertising, PurposeMarketing>>}
    /\ DOMAIN index.parent_map = {}

\* C26: subsumption is transitive: a finished call is_subsumed(parent, child)
\* answers True whenever some URI b has is_subsumed(parent, b) and
\* is_subsumed(b, child), whether the two steps are rule edges or parent links.
C26_Transitive ==
    sub_pc = "done"
    => \A b \in PurposeUris :
          (is_subsumed(q_parent, b, index) /\ is_subsumed(b, q_child, index))
          => Get(sub_result) = TRUE

----------------------------------------------------------------------------
(* Claims about the normalizer.                                             *)

MinOf(S) == CHOOSE m \in S : \A n \in S : m <= n

\* C10: normalize_label resolves in a fixed order and returns at the first
\* hit: an empty or null label gives (null, 0.0, missing); else an exact hit
\* of the canonical key in the index gives (uri, 1.0, exact_label); else
\* substring containment either way, first in index order, gives (uri, 0.82,
\* substring_match); else a supplied chooser whose pick is among the
\* candidates gives (pick, 0.7, chooser); else (null, 0.0, unknown).
C10_ResolutionOrder ==
    norm_pc = "done" =>
        LET r       == Get(norm_result)
            idx     == _build_index(norm_vocab)
            missing == IsNone(norm_label) \/ \A i \in 1..Len(Get(norm_label)) : IsSpace(Get(norm_label)[i])
            key     == _canon(Get(norm_label))
            exactAt == {i \in 1..Len(idx) : idx[i].k = key}
            subAt   == {i \in 1..Len(idx) : Contains(key, idx[i].k) \/ Contains(idx[i].k, key)}
            pickOk  == /\ ~IsNone(norm_chooser)
                       /\ ~IsNone(Get(norm_chooser))
                       /\ \E j \in 1..Len(norm_choices) : norm_choices[j] = Get(Get(norm_chooser))
        IN  IF missing
            THEN r = NormalizedField(norm_label, None, 0, "missing")
            ELSE IF exactAt # {}
            THEN \E i \in exactAt : r = NormalizedField(norm_label, Some(idx[i].v), 100, "exact_label")
            ELSE IF subAt # {}
            THEN r = NormalizedField(norm_label, Some(idx[MinOf(subAt)].v), 82, "substring_match")
            ELSE IF pickOk
            THEN r = NormalizedField(norm_label, Get(norm_chooser), 70, "chooser")
            ELSE r = NormalizedField(norm_label, None, 0, "unknown")

\* A call that fell through the exact and the substring step of a non-empty
\* index and took the chooser's pick.
C10_Witness ==
    /\ norm_pc = "done"
    /\ norm_vocab = VocabA
    /\ Get(norm_result).reason = "chooser"
    /\ Get(norm_result).normalized_uri = Some(UriActionAb)

\* a letter of either case or a digit
IsAlnum(c) == LowerChar(c) \in Range(LowerLetters) \/ c \in Digits

RECURSIVE DropSeparators(_)
DropSeparators(s) == IF s # <<>> /\ ~IsAlnum(Head(s)) THEN DropSeparators(Tail(s)) ELSE s

\* what is left of a label when letter case and the choice, the number and the
\* leading or trailing position of non-alphanumeric characters are set aside:
\* its alphanumeric runs in lower case, one space between two runs
RECURSIVE Skeleton(_)
Skeleton(s) ==
    LET t == DropSeparators(s)
    IN  IF t = <<>> THEN <<>>
        ELSE IF Len(t) > 1 /\ ~IsAlnum(t[2])
             THEN IF DropSeparators(Tail(t)) = <<>> THEN <<LowerChar(t[1])>>
                  ELSE <<LowerChar(t[1]), " ">> \o Skeleton(Tail(t))
             ELSE <<LowerChar(t[1])>> \o Skeleton(Tail(t))

\* C24: a label that differs from the normalized one only in letter case or in
\* non-alphanumeric characters has the same canonical key and gets the same
\* URI, confidence and reason from normalize_label.
C24_CaseAndPunctuationInsensitive ==
    (norm_pc = "done" /\ norm_label # None /\ Skeleton(Get(norm_label)) # <<>>)
    => \A other \in SeqsUpTo(LabelAlphabet, MaxLabelLen) :
          Skeleton(other) = Skeleton(Get(norm_label))
          => LET r == normalize_label(Some(other), norm_vocab, norm_choices, norm_chooser)
             IN  /\ _canon(other) = _canon(Get(norm_label))
                 /\ r.normalized_uri = Get(norm_result).normalized_uri
                 /\ r.confidence = Get(norm_result).confidence
                 /\ r.reason = Get(norm_result).reason

----------------------------------------------------------------------------
(* Claims about find_mismatches, checked under SpecDetect.                  *)

\* the record of the last iteration of find_mismatches, and its two operations
LastFp == ById(fp_ops, Get(det_last).pair.fp_op_id)
LastTp == ById(tp_ops, Get(det_last).pair.tp_op_id)
LastResolved == det_last # None /\ ~IsNone(LastFp) /\ ~IsNone(LastTp)
LastAppended == Len(findings) = Get(det_last).before + 1
LastSkipped == Len(findings) = Get(det_last).before

\* C1: every finding returned by find_mismatches, whatever the verifier
\* answers, has non-empty fp_evidence and non-empty tp_evidence, and a pair
\* in which either operation has no evidence spans yields no finding.
C1_DualEvidence ==
    /\ \A i \in 1..Len(findings) :
          findings[i].fp_evidence # <<>> /\ findings[i].tp_evidence # <<>>
    /\ (LastResolved /\ (Get(LastFp).evidence_spans = <<>> \/ Get(LastTp).evidence_spans = <<>>))
          => (LastSkipped /\ IsNone(Get(det_last).candidate))

\* a pair whose third-party operation alone lacks evidence was skipped under
\* a supplied verifier, after another pair had produced a finding
C1_Witness ==
    /\ LastResolved
    /\ Get(LastFp).evidence_spans # <<>>
    /\ Get(LastTp).evidence_spans = <<>>
    /\ ~IsNone(verifier)
    /\ LastSkipped
    /\ Len(findings) >= 1

\* the rules of the cascade, in the order the documentation gives them
C5_RuleHolds(k, fp, tp) ==
    CASE k = 1 -> RequiredMissing(fp, tp)
      [] k = 2 -> /\ EndsWith(OrEmpty(fp.view.normalized_uri), <<"d","o","_","n","o","t">>)
                  /\ ~EndsWith(OrEmpty(tp.view.normalized_uri), <<"d","o","_","n","o","t">>)
      [] k = 3 -> ExtraTp(fp, tp, IdxArg) # <<>>
      [] k = 4 -> BasisDiffers(fp, tp)
      [] k = 5 -> TRUE

C5_RuleTypes ==
    <<"UnderSpecifiedRequirement", "InconsistentRequirement", "PurposeMismatch",
      "ConditionMismatch", "SatisfiedRequirement">>

C5_FirstRule(fp, tp) ==
    CHOOSE k \in 1..5 : C5_RuleHolds(k, fp, tp) /\ \A j \in 1..(k - 1) : ~C5_RuleHolds(j, fp, tp)

\* C5: for an aligned pair whose operations both have evidence, the first rule
\* that holds, in the order UnderSpecifiedRequirement, InconsistentRequirement,
\* PurposeMismatch, ConditionMismatch, SatisfiedRequirement, builds the single
\* candidate; the pair adds at most one finding, and exactly that one when the
\* verifier confirms; do_not against a view that is not do_not gives
\* InconsistentRequirement, PotentiallyNonCompliant.
C5_CascadeOrder ==
    (LastResolved /\ Get(LastFp).evidence_spans # <<>> /\ Get(LastTp).evidence_spans # <<>>)
    => LET r == Get(det_last)
           c == Get(r.candidate)
       IN  /\ ~IsNone(r.candidate)
           /\ c.finding_type = C5_RuleTypes[C5_FirstRule(Get(LastFp), Get(LastTp))]
           /\ LastSkipped \/ LastAppended
           /\ r.decision = Some("CONFIRMED") => (LastAppended /\ findings[Len(findings)] = c)
           /\ (~C5_RuleHolds(1, Get(LastFp), Get(LastTp)) /\ C5_RuleHolds(2, Get(LastFp), Get(LastTp)))
                 => (c.finding_type = "InconsistentRequirement"
                     /\ c.status = "PotentiallyNonCompliant")

\* a confirmed do_not-vs-may pair whose purposes and legal bases differ too
C5_Witness ==
    /\ LastResolved
    /\ ~C5_RuleHolds(1, Get(LastFp), Get(LastTp))
    /\ \A k \in 2..4 : C5_RuleHolds(k, Get(LastFp), Get(LastTp))
    /\ Get(det_last).decision = Some("CONFIRMED")
    /\ LastAppended
    /\ findings[Len(findings)].finding_type = "InconsistentRequirement"

\* C6: a candidate is appended only after the verifier has answered; on
\* NOT_CONFIRMED it is never appended, and an UnderSpecifiedRequirement
\* candidate is appended on UNDER_SPECIFIED and on CONFIRMED.
C6_VerifierGate ==
    (det_last # None)
    => LET r == Get(det_last)
       IN  /\ LastSkipped \/ (LastAppended /\ ~IsNone(r.candidate) /\ ~IsNone(r.decision))
           /\ r.decision = Some("NOT_CONFIRMED") => LastSkipped
           /\ (/\ ~IsNone(r.candidate)
               /\ Get(r.candidate).finding_type = "UnderSpecifiedRequirement"
               /\ r.decision \in {Some("UNDER_SPECIFIED"), Some("CONFIRMED")})
                 => (LastAppended /\ findings[Len(findings)] = Get(r.candidate))

\* an UnderSpecifiedRequirement candidate kept on the answer UNDER_SPECIFIED
\* of a supplied verifier
C6_Witness ==
    /\ det_last # None
    /\ ~IsNone(verifier)
    /\ ~IsNone(Get(det_last).candidate)
    /\ Get(Get(det_last).candidate).finding_type = "UnderSpecifiedRequirement"
    /\ Get(det_last).decision = Some("UNDER_SPECIFIED")
    /\ LastAppended

\* C17: a pair whose third-party operation carries a purpose that failed to
\* normalize is not reported as SatisfiedRequirement, Consistent.
C17_NullPurposeNotSatisfied ==
    (/\ LastResolved
     /\ \E i \in 1..Len(Get(LastTp).purposes) : IsNone(Get(LastTp).purposes[i].normalized_uri))
    => ~(/\ LastAppended
         /\ findings[Len(findings)].finding_type = "SatisfiedRequirement"
         /\ findings[Len(findings)].status = "Consistent")

\* the evidence of one side has some text
HasText(spans) == \E i \in 1..Len(spans) : Strip(spans[i]) # <<>>

\* C16: the default verifier answers CONFIRMED for every finding with
\* evidence text on both sides, whatever its type, and something else only
\* when the text is missing or blank on a side.
C16_DefaultVerifierStructural ==
    (det_last # None /\ IsNone(verifier) /\ ~IsNone(Get(det_last).candidate))
    => LET c == Get(Get(det_last).candidate)
       IN  Get(det_last).decision = Some("CONFIRMED")
              <=> (HasText(c.fp_evidence) /\ HasText(c.tp_evidence))

\* C16, amended: the default verifier answers CONFIRMED for every finding
\* with evidence text on both sides whose type is not
\* UnderSpecifiedRequirement, and UNDER_SPECIFIED for every other finding: text
\* missing or blank on a side, or type UnderSpecifiedRequirement.
C16_DefaultVerifierAmended ==
    (det_last # None /\ IsNone(verifier) /\ ~IsNone(Get(det_last).candidate))
    => LET c == Get(Get(det_last).candidate)
           confirm == /\ HasText(c.fp_evidence) /\ HasText(c.tp_evidence)
                      /\ c.finding_type # "UnderSpecifiedRequirement"
       IN  Get(det_last).decision = Some(IF confirm THEN "CONFIRMED" ELSE "UNDER_SPECIFIED")

\* the default verifier answered UNDER_SPECIFIED for an
\* UnderSpecifiedRequirement finding with evidence text on both sides
C16_Witness ==
    /\ det_last # None /\ IsNone(verifier) /\ ~IsNone(Get(det_last).candidate)
    /\ HasText(Get(Get(det_last).candidate).fp_evidence)
    /\ HasText(Get(Get(det_last).candidate).tp_evidence)
    /\ Get(Get(det_last).candidate).finding_type = "UnderSpecifiedRequirement"
    /\ Get(det_last).decision = Some("UNDER_SPECIFIED")
    /\ LastAppended

\* the subsumption the detector uses: by the index, by equality without one
IndexOrNone == IF index_given THEN index ELSE NoIndex

\* the third-party purpose URIs no first-party purpose URI subsumes, in order
RECURSIVE OutOfScope(_, _)
OutOfScope(tp_purposes, fp_purposes) ==
    IF tp_purposes = <<>> THEN <<>>
    ELSE (IF \E i \in 1..Len(fp_purposes) : Subsumes(fp_purposes[i], Head(tp_purposes), IndexOrNone)
          THEN <<>> ELSE <<Head(tp_purposes)>>)
         \o OutOfScope(Tail(tp_purposes), fp_purposes)

\* the pair of the documentation's scenario
IsScenarioPair(fp, tp) ==
    /\ fp.action.normalized_uri = Some(ActionShare)
    /\ fp.subject.normalized_uri = Some(SubjectDeviceId)
    /\ fp.view.normalized_uri = Some(ViewMay)
    /\ TruthyUris(fp.purposes) = <<PurposeAnalytics>>
    /\ tp.action.normalized_uri = Some(ActionCollect)
    /\ tp.subject.normalized_uri = Some(SubjectDeviceId)
    /\ TruthyUris(tp.purposes) = <<PurposeAdvertising, PurposeAnalytics>>

\* C15: a pair that reaches the purpose rule gives a PurposeMismatch candidate
\* iff some third-party purpose URI is subsumed by no first-party purpose URI,
\* and the finding lists exactly those; share/device_id/[analytics]/may against
\* collect/device_id/[advertising, analytics] scores at least 1.6, is aligned,
\* and gives PurposeMismatch listing purpose:advertising only.
C15_PurposeMismatchIffOutOfScope ==
    (/\ LastResolved
     /\ EvidencePrecondition(Get(LastFp), Get(LastTp))
     /\ ~RequiredMissing(Get(LastFp), Get(LastTp))
     /\ ~Contradiction(Get(LastFp), Get(LastTp)))
    => LET fp == Get(LastFp)
           tp == Get(LastTp)
           c  == Get(Get(det_last).candidate)
           out == OutOfScope(TruthyUris(tp.purposes), TruthyUris(fp.purposes))
       IN  /\ c.finding_type = "PurposeMismatch" <=> out # <<>>
           /\ c.extra_tp_purposes = out
           /\ IsScenarioPair(fp, tp)
                 => /\ CandidateScore(fp, tp, IdxArg, strict).score >= (16 * ScoreOne) \div 10
                    /\ ~IsNone(AlignOne(fp, <<tp>>, {}, IdxArg, strict, DefaultMinScore))
                    /\ c.finding_type = "PurposeMismatch"
                    /\ c.extra_tp_purposes = <<PurposeAdvertising>>
                    /\ Get(det_last).decision = Some("CONFIRMED")
                          => (LastAppended /\ findings[Len(findings)] = c)

\* the scenario pair, confirmed by the default verifier
C15_Witness ==
    /\ LastResolved
    /\ IsScenarioPair(Get(LastFp), Get(LastTp))
    /\ IsNone(verifier)
    /\ LastAppended
    /\ findings[Len(findings)].finding_type = "PurposeMismatch"
    /\ findings[Len(findings)].extra_tp_purposes = <<PurposeAdvertising>>

\* the finding types built by the rules after the under-specified gate
C25_GatedTypes ==
    {"InconsistentRequirement", "PurposeMismatch", "ConditionMismatch", "SatisfiedRequirement"}

\* C25: a Contradiction, PurposeMismatch, ConditionMismatch or
\* SatisfiedRequirement candidate is appended exactly when the verifier
\* answers CONFIRMED; on UNDER_SPECIFIED, as on NOT_CONFIRMED, the pair leaves
\* the findings as they were.
C25_ConfirmedOnly ==
    (det_last # None /\ ~IsNone(Get(det_last).candidate)
       /\ Get(Get(det_last).candidate).finding_type \in C25_GatedTypes)
    => LET r == Get(det_last)
       IN  /\ LastAppended <=> r.decision = Some("CONFIRMED")
           /\ r.decision \in {Some("UNDER_SPECIFIED"), Some("NOT_CONFIRMED")}
                 => (LastSkipped
                     /\ \A i \in 1..Len(findings) :
                           ~(findings[i].fp_op_id = r.pair.fp_op_id
                             /\ findings[i].tp_op_id = r.pair.tp_op_id
                             /\ findings[i].finding_id > r.before))

\* a PurposeMismatch candidate dropped on the answer UNDER_SPECIFIED of a
\* supplied verifier, after another pair had produced a finding
C25_Witness ==
    /\ det_last # None
    /\ ~IsNone(verifier)
    /\ ~IsNone(Get(det_last).candidate)
    /\ Get(Get(det_last).candidate).finding_type = "PurposeMismatch"
    /\ Get(det_last).decision = Some("UNDER_SPECIFIED")
    /\ LastSkipped
    /\ Len(findings) = 1

\* C29: the k-th finding has id finding_k, whatever was skipped or dropped
\* before it, so the ids are pairwise distinct and leave no gap.
C29_ConsecutiveIds ==
    /\ \A k \in 1..Len(findings) : findings[k].finding_id = k
    /\ \A i, j \in 1..Len(findings) :
          i # j => findings[i].finding_id # findings[j].finding_id
    /\ (det_last # None /\ LastAppended)
          => findings[Len(findings)].finding_id = Get(det_last).before + 1

\* the second pair's finding is the first one kept and has id 1
C29_Witness ==
    /\ det_n = 2
    /\ det_last # None
    /\ LastAppended
    /\ Get(det_last).before = 0
    /\ findings[1].finding_id = 1
    /\ ~IsNone(verifier)

----------------------------------------------------------------------------
(* Claims about align_operations, checked under SpecAlign.                  *)

\* C2: no tp_op_id occurs in two of the pairs align_operations returns (the
\* op_ids of each list being distinct); the loop's pairs are the function's.
C2_AlignmentUnique ==
    /\ \A i, j \in 1..Len(pairs) : i # j => pairs[i].tp_op_id # pairs[j].tp_op_id
    /\ al_pc = "done" => pairs = align_operations(fp_ops, tp_ops, IdxArg, strict, min_score)

\* two pairs were returned, and the second first-party operation would have
\* taken the first one's third-party operation had it still been free
C2_Witness ==
    /\ al_pc = "done"
    /\ Len(pairs) = 2
    /\ LET p == AlignOne(ById(fp_ops, pairs[2].fp_op_id)[1], tp_ops, {}, IdxArg, strict, min_score)
       IN  ~IsNone(p) /\ Get(p).tp_op_id = pairs[1].tp_op_id

\* the position of an operation in its list
PosOf(ops, id) == CHOOSE i \in 1..Len(ops) : ops[i].op_id = id

\* the score of the k-th pair's first-party operation against tp_ops[j]
ScoreAgainst(k, j) ==
    CandidateScore(fp_ops[PosOf(fp_ops, pairs[k].fp_op_id)], tp_ops[j], IdxArg, strict).score

\* the third-party operations no earlier pair has claimed
FreeFor(k) ==
    {j \in 1..Len(tp_ops) : \A e \in 1..(k - 1) : pairs[e].tp_op_id # tp_ops[j].op_id}

\* C13: with the default min_score, no pair is committed on subject and
\* action-family compatibility alone: a committed pair has a purpose overlap,
\* a recipient/source alignment or a strict-context bonus.
C13_SubjectActionInsufficient ==
    min_score = DefaultMinScore
    => \A k \in 1..Len(pairs) :
          LET fp == fp_ops[PosOf(fp_ops, pairs[k].fp_op_id)]
              tp == tp_ops[PosOf(tp_ops, pairs[k].tp_op_id)]
          IN  \/ "purpose_overlap" \in Range(pairs[k].reasons)
              \/ "recipient_source_alignment" \in Range(pairs[k].reasons)
              \/ /\ strict
                 /\ ContextDelta(fp.localisation, tp.localisation)
                      + ContextDelta(fp.temporal, tp.temporal) > 0

\* C14: the pairs follow the order of fp_ops; the third-party operation of
\* each pair has the highest score among those no earlier pair claimed, the
\* earliest of them in tp_ops among equal scores; a claimed third-party
\* operation stays with its pair even when a later first-party operation
\* scores higher against it.
C14_GreedyInOrder ==
    /\ \A k \in 1..Len(pairs) :
          LET c == PosOf(tp_ops, pairs[k].tp_op_id)
          IN  /\ PosOf(fp_ops, pairs[k].fp_op_id) <= al_i
              /\ k > 1 => PosOf(fp_ops, pairs[k - 1].fp_op_id) < PosOf(fp_ops, pairs[k].fp_op_id)
              /\ c \in FreeFor(k)
              /\ pairs[k].score = ScoreAgainst(k, c)
              /\ \A j \in FreeFor(k) :
                    /\ ScoreAgainst(k, j) <= ScoreAgainst(k, c)
                    /\ ScoreAgainst(k, j) = ScoreAgainst(k, c) => c <= j
    /\ \A i \in 1..al_i :
          (\A k \in 1..Len(pairs) : pairs[k].fp_op_id # fp_ops[i].op_id)
          => LET before == {k \in 1..Len(pairs) : PosOf(fp_ops, pairs[k].fp_op_id) < i}
                 free   == {j \in 1..Len(tp_ops) :
                               \A e \in before : pairs[e].tp_op_id # tp_ops[j].op_id}
             IN  \A j \in free :
                    \/ CandidateScore(fp_ops[i], tp_ops[j], IdxArg, strict).score < min_score
                    \/ CandidateScore(fp_ops[i], tp_ops[j], IdxArg, strict).score <= 0

\* two third-party operations tie for the first pair and the earlier one is
\* taken; the second first-party operation scores higher against the claimed
\* one than against the one it gets
C14_Witness ==
    /\ al_pc = "done"
    /\ Len(pairs) = 2
    /\ \E j \in FreeFor(1) :
          j > PosOf(tp_ops, pairs[1].tp_op_id) /\ ScoreAgainst(1, j) = pairs[1].score
    /\ ScoreAgainst(2, PosOf(tp_ops, pairs[1].tp_op_id)) > pairs[2].score

\* C23: a first-party operation whose turn has passed has a pair if and only
\* if some third-party operation no earlier pair claimed scores at least
\* min_score against it (so its highest-scoring free candidate does), and
\* every pair's score is at least min_score.
C23_PairIffQualifies ==
    /\ \A k \in 1..Len(pairs) : pairs[k].score >= min_score
    /\ \A i \in 1..al_i :
          LET before == {k \in 1..Len(pairs) : PosOf(fp_ops, pairs[k].fp_op_id) < i}
              free   == {j \in 1..Len(tp_ops) :
                            \A e \in before : pairs[e].tp_op_id # tp_ops[j].op_id}
          IN  (\E k \in 1..Len(pairs) : pairs[k].fp_op_id = fp_ops[i].op_id)
              <=> (\E j \in free :
                      CandidateScore(fp_ops[i], tp_ops[j], IdxArg, strict).score >= min_score)

----------------------------------------------------------------------------
(* Claims about run_pipeline, checked under SpecPipeline.                   *)

\* validate_operations has run and returned an issue of level error
ValidationFailed ==
    /\ "validate_operations" \in calls
    /\ \E i \in 1..Len(issues) : issues[i].level = "error"

\* C3: when validation yields an error-level issue, neither find_mismatches
\* nor the verifier is invoked, the findings are empty and the summary has
\* blocking_errors = true.
C3_BlockingGate ==
    ValidationFailed
    => /\ "find_mismatches" \notin calls
       /\ "verifier" \notin calls
       /\ findings = <<>>
       /\ ~IsNone(summary) => (Get(summary).blocking_errors /\ Get(summary).findings = 0)

\* a finished run with an error-level issue whose aligned pairs would have
\* reached the verifier
C3_Witness ==
    /\ ValidationFailed
    /\ pl_pc = "done"
    /\ VerifierReached(pairs, fp_ops, tp_ops, Some(index))
    /\ Get(summary).blocking_errors

\* C4: when validation yields an error-level issue, align_operations is not
\* run and no aligned pairs are produced or reported.
C4_AlignmentSkipped ==
    ValidationFailed
    => /\ "align_operations" \notin calls
       /\ pairs = <<>>
       /\ ~IsNone(summary) => Get(summary).aligned_pairs = 0

\* C28: run_pipeline emits no UnderSpecifiedRequirement finding: whenever
\* find_mismatches is invoked, every operation of either policy has an action
\* and a subject URI.
C28_NoUnderSpecifiedInPipeline ==
    /\ \A i \in 1..Len(findings) : findings[i].finding_type # "UnderSpecifiedRequirement"
    /\ "find_mismatches" \in calls
          => \A i \in 1..Len(fp_ops \o tp_ops) :
                /\ ~IsNone((fp_ops \o tp_ops)[i].action.normalized_uri)
                /\ ~IsNone((fp_ops \o tp_ops)[i].subject.normalized_uri)

\* a finished run that aligned a pair whose candidate would have been
\* UnderSpecifiedRequirement, and was blocked before find_mismatches
C28_Witness ==
    /\ pl_pc = "done"
    /\ blocking
    /\ "find_mismatches" \notin calls
    /\ \E k \in 1..Len(pairs) :
          LET cand == Candidate(pairs[k], fp_ops, tp_ops, Some(index), 0)
          IN  ~IsNone(cand) /\ Get(cand).finding_type = "UnderSpecifiedRequirement"
    /\ findings = <<>>

\* C30: the report's compliance_status is PotentiallyNonCompliant exactly
\* when some emitted finding has that status and Consistent otherwise; a run
\* blocked by validation errors, and a run with no finding left, is reported
\* Consistent.
C30_ComplianceStatus ==
    ~IsNone(summary)
    => LET status == Get(summary).compliance_status
           flagged == \E i \in 1..Len(findings) : findings[i].status = "PotentiallyNonCompliant"
       IN  /\ status = (IF flagged THEN "PotentiallyNonCompliant" ELSE "Consistent")
           /\ Get(summary).finding_count = Len(findings)
           /\ ValidationFailed => (status = "Consistent" /\ Get(summary).finding_count = 0)
           /\ findings = <<>> => status = "Consistent"

\* a finished run, blocked by a validation error, whose aligned pairs hold a
\* purpose mismatch the default verifier would have confirmed, reported
\* Consistent
C30_Witness ==
    /\ pl_pc = "done"
    /\ ValidationFailed
    /\ IsNone(verifier)
    /\ \E i \in 1..Len(find_mismatches(pairs, fp_ops, tp_ops, Some(index), None, <<>>)) :
          find_mismatches(pairs, fp_ops, tp_ops, Some(index), None, <<>>)[i].finding_type
              = "PurposeMismatch"
    /\ Get(summary).compliance_status = "Consistent"

----------------------------------------------------------------------------
(* Claims about normalize_operation, checked under SpecNormOp.              *)

\* a normalized URI that is null or starts with prefix + ":"
NullOrInFacet(field, prefix) ==
    IsNone(field.normalized_uri) \/ StartsWith(Get(field.normalized_uri), prefix \o <<":">>)

\* C11: after normalize_operation, a non-null normalized URI of the action
\* slot starts with "action:", of the subject slot with "subject:" and of the
\* view slot with "view:", whichever step resolved it.
C11_FacetRestricted ==
    nop_pc = "done"
    => /\ NullOrInFacet(Get(nop_result).action, PrefixAction)
       /\ NullOrInFacet(Get(nop_result).subject, PrefixSubject)
       /\ NullOrInFacet(Get(nop_result).view, PrefixView)

----------------------------------------------------------------------------
(* Claims about validate_operations, checked under SpecValidate.            *)

ValidatedOps == fp_ops \o tp_ops

LacksActionOrSubject(op) ==
    IsNone(op.action.normalized_uri) \/ IsNone(op.subject.normalized_uri)

ErrorIssueFor(op) ==
    \E i \in 1..Len(issues) : issues[i].op_id = op.op_id /\ issues[i].level = "error"

\* C12: validate_operations emits an error-level issue for an operation iff
\* its action or subject URI is null; a missing view, a share/disclose action
\* without a normalized recipient and a prefix outside the allow-list give
\* warnings only; has_blocking_errors is true iff some operation lacks a
\* canonical action or subject.
C12_ErrorIffActionOrSubjectMissing ==
    "validate_operations" \in calls
    => /\ \A k \in 1..Len(ValidatedOps) :
             ErrorIssueFor(ValidatedOps[k]) <=> LacksActionOrSubject(ValidatedOps[k])
       /\ \A i \in 1..Len(issues) :
             /\ issues[i].level \in {"error", "warning"}
             /\ issues[i].level = "error"
                   => issues[i].message \in {"Operation missing canonical action",
                                             "Operation missing canonical subject"}
       /\ blocking <=> \E k \in 1..Len(ValidatedOps) : LacksActionOrSubject(ValidatedOps[k])
       /\ blocking = has_blocking_errors(issues)

\* a validated list with a missing view, a share without recipient and a
\* prefix outside the allow-list, and no error
C12_Witness ==
    /\ "validate_operations" \in calls
    /\ ~blocking
    /\ \E i, j, k \in 1..Len(issues) :
          /\ issues[i].message = "Operation missing modality/view"
          /\ issues[j].message = "Share/disclose operation missing recipient"
          /\ issues[k].message = "URI prefix not in allowed set"

----------------------------------------------------------------------------
(* Claims about the verifier adapter, checked under SpecVerifier.           *)

\* the response carries a JSON object whose decision is one of the three
WellFormedAnswer(e) ==
    /\ e.key /\ e.post = "response" /\ e.status < 400 /\ e.body = "content_object"
    /\ ~IsNone(e.decision) /\ Get(e.decision).isstr
    /\ Upper(Strip(Get(e.decision).s)) \in _ALLOWED

\* C18: every call of the adapter (with an API key configured) returns a decision and raises nothing; a
\* timeout, a transport or API error and a malformed or out-of-vocabulary
\* response each give UNDER_SPECIFIED.
C18_FailuresAbsorbed ==
    (ver_pc = "done" /\ Get(ver_env).key)
    => /\ IsNone(Get(ver_result).raised)
       /\ ~WellFormedAnswer(Get(ver_env)) => Get(ver_result).decision = Some(StrUnderSpecified)

----------------------------------------------------------------------------
(* Claims about is_context_compatible, checked under SpecContext.           *)

\* the entries, of any facet, that name the unordered pair {a, b}
MatchingEntries ==
    {i \in 1..Len(Flatten(ctx_rules)) :
        {Flatten(ctx_rules)[i].a, Flatten(ctx_rules)[i].b} = {ctx_a, ctx_b}}

\* C19: is_context_compatible(a, b) is true when a or b is null or a = b;
\* otherwise it is the compatible value of the (first) entry that names the
\* unordered pair {a, b}, and true when none does; the result is the same
\* for (b, a).
C19_ContextCompatible ==
    ctx_pc = "done"
    => /\ (IsNone(ctx_a) \/ IsNone(ctx_b) \/ ctx_a = ctx_b) => ctx_result = Some(TRUE)
       /\ (~IsNone(ctx_a) /\ ~IsNone(ctx_b) /\ ctx_a # ctx_b)
             => IF MatchingEntries = {} THEN ctx_result = Some(TRUE)
                ELSE LET first == CHOOSE i \in MatchingEntries : \A j \in MatchingEntries : i <= j
                         value == Flatten(ctx_rules)[first].compatible
                     IN  /\ value = "true" => ctx_result = Some(TRUE)
                         /\ value = "false" => ctx_result = Some(FALSE)
       /\ ctx_result = Some(is_context_compatible(ctx_b, ctx_a, ctx_rules))

\* an entry written (b, a) with compatible false decides the call on (a, b)
C19_Witness ==
    /\ ctx_pc = "done"
    /\ ~IsNone(ctx_a) /\ ~IsNone(ctx_b) /\ ctx_a # ctx_b
    /\ \E i \in MatchingEntries :
          /\ Flatten(ctx_rules)[i].a = ctx_b
          /\ Flatten(ctx_rules)[i].compatible = "false"
    /\ ctx_result = Some(FALSE)

----------------------------------------------------------------------------
(* Claims about _to_terms, checked under SpecLoad.                          *)

\* the text after the last ":" of a URI, the whole URI without one
AfterLastColon(uri) ==
    IF HasChar(uri, ":")
    THEN SubSeq(uri, 1 + (CHOOSE i \in 1..Len(uri) :
                             uri[i] = ":" /\ \A j \in (i + 1)..Len(uri) : uri[j] # ":"),
                Len(uri))
    ELSE uri

\* the entries that carry a URI, in order, as [uri, label given or None]
RECURSIVE WithUri(_)
WithUri(items) ==
    IF items = <<>> THEN <<>>
    ELSE LET it == Head(items)
             uri == IF Truthy(it.uri) THEN it.uri ELSE it.id
             given == IF Truthy(it.label) THEN it.label
                      ELSE IF Truthy(it.preferred_label) THEN it.preferred_label ELSE None
         IN  (IF Truthy(uri) THEN <<[uri |-> Get(uri), given |-> given]>> ELSE <<>>)
             \o WithUri(Tail(items))

\* C20: _to_terms drops the entries without a URI and loads the others, in
\* order; a term without a label gets the text after the last ":" of its URI.
C20_TolerantLoad ==
    load_pc = "done"
    => LET kept == WithUri(load_items)
           terms == Get(load_terms)
       IN  /\ Len(terms) = Len(kept)
           /\ \A k \in 1..Len(kept) :
                 /\ terms[k].uri = kept[k].uri
                 /\ terms[k].label = IF IsNone(kept[k].given) THEN AfterLastColon(kept[k].uri)
                                     ELSE Get(kept[k].given)

----------------------------------------------------------------------------
(* Claims about load_vocab, checked under SpecLoadVocab.                    *)

\* the name ends with the single-document extension, in any letter case
HasJsonExtension(name) == EndsWith(Lower(name), ExtJson)

\* C21: load_vocab ends with a ConfigError, and returns no Vocabulary, for
\* every path that is neither a directory nor a file with the recognized
\* single-document extension.
C21_UnsupportedPathConfigError ==
    lv_pc = "done"
    => LET path == Get(lv_path)
       IN  (~IsDir(path) /\ ~(path.kind = "file" /\ HasJsonExtension(path.name)))
           => Get(lv_result) = VocabRaised("ConfigError")

----------------------------------------------------------------------------
(* Claims about the purpose overlap, checked under SpecOverlap.             *)

\* two purposes related by subsumption in either direction, by the reference
\* definition of subsumption
RelatedPurposes(x, y) == Subsumes(x, y, index) \/ Subsumes(y, x, index)

\* the (position in a, position in b) pairs of related purposes
RelatedPairs(a, b) ==
    {ij \in (1..Len(a)) \X (1..Len(b)) : RelatedPurposes(a[ij[1]], b[ij[2]])}

\* the positions of a whose purpose has at least one related purpose in b
RelatedLefts(a, b) ==
    {i \in 1..Len(a) : \E j \in 1..Len(b) : RelatedPurposes(a[i], b[j])}

\* C22, as stated: with an index, the purpose component is 0.6 times the
\* number of related (first-party, third-party) purpose pairs divided by the
\* length of the shorter list, and 0 when a list is empty.
C22_PairCountRatio ==
    (ov_pc = "done" /\ ov_given)
    => Get(ov_result).component =
          IF ov_a = <<>> \/ ov_b = <<>> THEN 0
          ELSE (PurposeWeight * Cardinality(RelatedPairs(ov_a, ov_b)))
                   \div Min2(Len(ov_a), Len(ov_b))

\* C22, amended: with an index the ratio counts the first-party purposes that
\* have at least one related third-party purpose, over the length of the
\* shorter list; without an index it is the shared URIs over all the URIs of
\* the two lists; the component is 0.6 times the ratio and 0 when a list is
\* empty.
C22_LeftHitRatio ==
    ov_pc = "done"
    => Get(ov_result).component =
          IF ov_a = <<>> \/ ov_b = <<>> THEN 0
          ELSE IF ov_given
               THEN (PurposeWeight * Cardinality(RelatedLefts(ov_a, ov_b)))
                        \div Min2(Len(ov_a), Len(ov_b))
               ELSE (PurposeWeight * Cardinality(Range(ov_a) \cap Range(ov_b)))
                        \div Cardinality(Range(ov_a) \cup Range(ov_b))

\* A first-party purpose with two related partners is counted once: under the
\* star index, [advertising] against [marketing, analytics] gives ratio 1.0.
C22_Witness ==
    /\ ov_pc = "done" /\ ov_given /\ index = StarIndex
    /\ ov_a = <<PurposeAdvertising>>
    /\ ov_b = <<PurposeMarketing, PurposeAnalytics>>
    /\ Cardinality(RelatedPairs(ov_a, ov_b)) = 2
    /\ Get(ov_result).ratio = ScoreOne
    /\ Get(ov_result).component = PurposeWeight

\* C27: the overlap ratio lies in [0, 1] and the purpose component is at most
\* 0.6, for any two purpose lists.
C27_RatioWithinUnit ==
    ov_pc = "done"
    => /\ 0 <= Get(ov_result).ratio /\ Get(ov_result).ratio <= ScoreOne
       /\ Get(ov_result).component <= PurposeWeight

=============================================================================
